---- MODULE Spec2Model ----
(***************************************************************************)
(* Voxel builder of gesture-lab: the occupancy store (VoxelGrid), the      *)
(* instanced render buffer (VoxelBuilderRenderer) and the gesture          *)
(* controller (VoxelBuilderController).                                    *)
(*                                                                         *)
(* Units.  Lengths are integers in units of cellSize/2 (0.225 world        *)
(* units), so cellSize and spawnDistance (both 0.45) are 2.  Angles are    *)
(* integers in units of 20 degrees, so MAX_TILT (pi/3) is 3.               *)
(***************************************************************************)
EXTENDS Integers, Sequences, FiniteSets, TLC

VARIABLES grid, renderer, ctrl, lastCall, lowRun

vars == <<grid, renderer, ctrl, lastCall, lowRun>>

(***************************************************************************)
(* Configuration (DEFAULT_VOXEL_BUILDER_CONFIG), scaled to the model.      *)
(***************************************************************************)
cellSize == 2

spawnDistance == 2

maxBoxes == 3

fpsWarningThreshold == 2

fpsWarningDurationSec == 3

(* Number.POSITIVE_INFINITY / NEGATIVE_INFINITY of the extent fields: an   *)
(* integer above / below every coordinate of the model.                    *)
Infinity == 1000000

NegInfinity == -1000000

(***************************************************************************)
(* Bounds of the exploration.                                              *)
(***************************************************************************)
(* direct addBox calls are explored up to this many live instances *)
MaxInstances == 4

(* frames counted between two FPS samples *)
MaxFrameCount == 2

(* cap of the (unbounded) low-FPS accumulator *)
MaxLowFps == 4

(* cap of |targetRotY| (yaw is unbounded in the code) *)
MaxYaw == 2

(***************************************************************************)
(* Grid cells and positions of the exploration.                            *)
(***************************************************************************)
Cell(gx, gy, gz) == [gx |-> gx, gy |-> gy, gz |-> gz]

Cells == {Cell(gx, gy, 0) : gx \in {0, 1}, gy \in {-1, 0, 1}}

Origin == <<0, 0, 0>>

(***************************************************************************)
(* voxelKey: template string `${gx},${gy},${gz}`.  A string is a sequence  *)
(* of one-character strings.                                               *)
(***************************************************************************)
DigitChar(d) == <<"0", "1", "2", "3", "4", "5", "6", "7", "8", "9">>[d + 1]

RECURSIVE Digits(_)
Digits(n) == IF n < 10 THEN <<DigitChar(n)>>
             ELSE Append(Digits(n \div 10), DigitChar(n % 10))

(* Number.prototype.toString of an integer *)
NumberToString(n) == IF n < 0 THEN <<"-">> \o Digits(-n) ELSE Digits(n)

voxelKey(gx, gy, gz) ==
    NumberToString(gx) \o <<",">> \o NumberToString(gy) \o <<",">> \o NumberToString(gz)

(* String.prototype.split(','): the fields between the commas *)
RECURSIVE split(_)
split(k) ==
    IF \A i \in 1..Len(k) : k[i] # ","
    THEN <<k>>
    ELSE LET i == CHOOSE j \in 1..Len(k) : k[j] = "," /\ \A h \in 1..(j - 1) : k[h] # ","
         IN <<SubSeq(k, 1, i - 1)>> \o split(SubSeq(k, i + 1, Len(k)))

DigitValue(c) == CHOOSE d \in 0..9 : DigitChar(d) = c

IsDigit(c) == \E d \in 0..9 : DigitChar(d) = c

RECURSIVE ParseDigits(_, _)
ParseDigits(s, acc) ==
    IF s = <<>> \/ ~IsDigit(Head(s)) THEN acc
    ELSE ParseDigits(Tail(s), 10 * acc + DigitValue(Head(s)))

(* parseInt(s, 10) on a key field: optional sign, then the leading digits *)
parseInt(s) ==
    IF s # <<>> /\ Head(s) = "-" THEN -ParseDigits(Tail(s), 0)
    ELSE ParseDigits(s, 0)

(***************************************************************************)
(* VoxelGrid                                                               *)
(***************************************************************************)
NewGrid == [occupied |-> {}, minY |-> Infinity, maxY |-> NegInfinity]

maxCells == maxBoxes

(* Math.round(p / cellSize): round half up *)
RoundDiv(p) == (2 * p + cellSize) \div (2 * cellSize)

worldToGrid(worldPos) ==
    Cell(RoundDiv(worldPos[1]), RoundDiv(worldPos[2]), RoundDiv(worldPos[3]))

gridToWorld(pos) == <<pos.gx * cellSize, pos.gy * cellSize, pos.gz * cellSize>>

count(g) == Cardinality(g.occupied)

has(g, gx, gy, gz) == voxelKey(gx, gy, gz) \in g.occupied

(* add without the capacity test *)
addUnbounded(g, gx, gy, gz) ==
    LET key == voxelKey(gx, gy, gz) IN
    IF key \in g.occupied THEN [grid |-> g, ret |-> FALSE]
    ELSE [grid |-> [occupied |-> g.occupied \cup {key},
                    minY |-> IF gy < g.minY THEN gy ELSE g.minY,
                    maxY |-> IF gy > g.maxY THEN gy ELSE g.maxY],
          ret |-> TRUE]

(* add with the capacity test off by one: > for >= *)
addOffByOne(g, gx, gy, gz) ==
    IF Cardinality(g.occupied) > maxBoxes THEN [grid |-> g, ret |-> FALSE]
    ELSE addUnbounded(g, gx, gy, gz)

(* add that widens the extent before it tests capacity and occupancy *)
addExtentFirst(g, gx, gy, gz) ==
    LET w == [g EXCEPT !.minY = IF gy < g.minY THEN gy ELSE g.minY,
                       !.maxY = IF gy > g.maxY THEN gy ELSE g.maxY]
    IN IF Cardinality(g.occupied) >= maxBoxes \/ voxelKey(gx, gy, gz) \in g.occupied
       THEN [grid |-> w, ret |-> FALSE]
       ELSE [grid |-> [w EXCEPT !.occupied = g.occupied \cup {voxelKey(gx, gy, gz)}],
             ret |-> TRUE]

add(g, gx, gy, gz) ==
    IF Cardinality(g.occupied) >= maxCells THEN [grid |-> g, ret |-> FALSE]
    ELSE LET key == voxelKey(gx, gy, gz) IN
         IF key \in g.occupied THEN [grid |-> g, ret |-> FALSE]
         ELSE [grid |-> [occupied |-> g.occupied \cup {key},
                         minY |-> IF gy < g.minY THEN gy ELSE g.minY,
                         maxY |-> IF gy > g.maxY THEN gy ELSE g.maxY],
               ret |-> TRUE]

(* the extent loop of remove: a fold of min / max over the remaining keys *)
RECURSIVE ScanExtent(_, _, _)
ScanExtent(keys, lo, hi) ==
    IF keys = {} THEN [minY |-> lo, maxY |-> hi]
    ELSE LET k == CHOOSE x \in keys : TRUE
             gy == parseInt(split(k)[2])
         IN ScanExtent(keys \ {k},
                       IF gy < lo THEN gy ELSE lo,
                       IF gy > hi THEN gy ELSE hi)

(* remove that keeps the old extent instead of rescanning *)
removeNoRescan(g, gx, gy, gz) ==
    LET key == voxelKey(gx, gy, gz) IN
    IF key \notin g.occupied THEN [grid |-> g, ret |-> FALSE]
    ELSE [grid |-> [g EXCEPT !.occupied = g.occupied \ {key}], ret |-> TRUE]

remove(g, gx, gy, gz) ==
    LET key == voxelKey(gx, gy, gz) IN
    IF key \notin g.occupied THEN [grid |-> g, ret |-> FALSE]
    ELSE LET rest == g.occupied \ {key}
             ext == ScanExtent(rest, Infinity, NegInfinity)
         IN [grid |-> [occupied |-> rest, minY |-> ext.minY, maxY |-> ext.maxY],
             ret |-> TRUE]

getYRange(g) ==
    IF Cardinality(g.occupied) = 0 THEN [minY |-> 0, maxY |-> 0]
    ELSE [minY |-> g.minY, maxY |-> g.maxY]

clear(g) == [occupied |-> {}, minY |-> Infinity, maxY |-> NegInfinity]

(***************************************************************************)
(* VoxelBuilderRenderer.  boxes is the BoxRecord list (1-based here),      *)
(* instanceIndex the 0-based slot of the InstancedMesh.  created is FALSE  *)
(* while the controller's renderer field is null.  groupRotated is FALSE   *)
(* exactly while buildGroup.rotation is (0, 0).                            *)
(***************************************************************************)
MAX_TILT == 3

BoxRecord(gx, gy, gz, idx) == [gx |-> gx, gy |-> gy, gz |-> gz, instanceIndex |-> idx]

NewRenderer ==
    [created |-> TRUE, boxes |-> <<>>, instanceCount |-> 0,
     targetRotX |-> 0, targetRotY |-> 0, groupRotated |-> FALSE,
     eraseMode |-> FALSE, ghostVisible |-> FALSE, palette |-> 0]

NullRenderer == [NewRenderer EXCEPT !.created = FALSE]

addBox(r, gx, gy, gz) ==
    LET idx == r.instanceCount IN
    [r EXCEPT !.instanceCount = r.instanceCount + 1,
              !.boxes = Append(r.boxes, BoxRecord(gx, gy, gz, idx))]

(* Array.prototype.findIndex: first position that matches, 0 for -1 *)
findIndex(boxes, gx, gy, gz) ==
    LET hits == {i \in 1..Len(boxes) :
                    boxes[i].gx = gx /\ boxes[i].gy = gy /\ boxes[i].gz = gz}
    IN IF hits = {} THEN 0 ELSE CHOOSE i \in hits : \A j \in hits : i <= j

(* Array.prototype.find on instanceIndex: first position that matches, 0 for undefined *)
findSlot(boxes, slot) ==
    LET hits == {i \in 1..Len(boxes) : boxes[i].instanceIndex = slot}
    IN IF hits = {} THEN 0 ELSE CHOOSE i \in hits : \A j \in hits : i <= j

(* Array.prototype.splice(idx, 1) *)
splice(boxes, idx) == SubSeq(boxes, 1, idx - 1) \o SubSeq(boxes, idx + 1, Len(boxes))

(* removeBox that forgets to give the moved record its new slot *)
removeBoxNoReindex(r, gx, gy, gz) ==
    LET idx == findIndex(r.boxes, gx, gy, gz) IN
    IF idx = 0 THEN [renderer |-> r, ret |-> FALSE, threw |-> FALSE]
    ELSE [renderer |-> [r EXCEPT !.boxes = splice(r.boxes, idx),
                                 !.instanceCount = r.instanceCount - 1],
          ret |-> TRUE, threw |-> FALSE]

(* removeBox that moves the record at the end of the list, not the one in the last slot *)
removeBoxMovesListLast(r, gx, gy, gz) ==
    LET idx == findIndex(r.boxes, gx, gy, gz) IN
    IF idx = 0 THEN [renderer |-> r, ret |-> FALSE, threw |-> FALSE]
    ELSE LET moved == [r.boxes EXCEPT ![Len(r.boxes)].instanceIndex =
                                          r.boxes[idx].instanceIndex]
         IN [renderer |-> [r EXCEPT !.boxes = splice(moved, idx),
                                    !.instanceCount = r.instanceCount - 1],
             ret |-> TRUE, threw |-> FALSE]

(* threw: lastRecord is undefined and its assignment raises a TypeError *)
removeBox(r, gx, gy, gz) ==
    LET idx == findIndex(r.boxes, gx, gy, gz) IN
    IF idx = 0 THEN [renderer |-> r, ret |-> FALSE, threw |-> FALSE]
    ELSE LET lastIdx == r.instanceCount - 1
             removedRecord == r.boxes[idx]
             last == findSlot(r.boxes, lastIdx)
         IN IF removedRecord.instanceIndex # lastIdx /\ last = 0
            THEN [renderer |-> r, ret |-> FALSE, threw |-> TRUE]
            ELSE LET moved ==
                        IF removedRecord.instanceIndex # lastIdx
                        THEN [r.boxes EXCEPT ![last].instanceIndex =
                                                 removedRecord.instanceIndex]
                        ELSE r.boxes
                 IN [renderer |-> [r EXCEPT !.boxes = splice(moved, idx),
                                            !.instanceCount = r.instanceCount - 1],
                     ret |-> TRUE, threw |-> FALSE]

setEraseMode(r, active) == [r EXCEPT !.eraseMode = active]

setPalette(r, palette) == [r EXCEPT !.palette = palette]

updateGhostPreview(r, visible) == [r EXCEPT !.ghostVisible = visible]

Clamp(lo, x, hi) == IF x < lo THEN lo ELSE IF x > hi THEN hi ELSE x

(* a rotation target whose pitch is not clamped *)
applyRotationDeltaUnclamped(r, deltaY, deltaX) ==
    [r EXCEPT !.targetRotY = r.targetRotY + deltaY,
              !.targetRotX = r.targetRotX + deltaX]

applyRotationDelta(r, deltaY, deltaX) ==
    [r EXCEPT !.targetRotY = r.targetRotY + deltaY,
              !.targetRotX = Clamp(-MAX_TILT, r.targetRotX + deltaX, MAX_TILT)]

resetRotation(r) == [r EXCEPT !.targetRotY = 0, !.targetRotX = 0]

(* the group's Euler angles move 12% of the way to the target: from (0, 0)  *)
(* they stay there exactly when the target is (0, 0)                        *)
updateGroupRotation(r) ==
    [r EXCEPT !.groupRotated = r.groupRotated \/ r.targetRotY # 0 \/ r.targetRotX # 0]

render(r) == updateGroupRotation(r)

clearBoxes(r) == [r EXCEPT !.instanceCount = 0, !.boxes = <<>>]

(***************************************************************************)
(* VoxelBuilderController.  A controller state S is the record             *)
(* [grid, renderer, ctrl]; `renderer?.m()` is skipped while the renderer   *)
(* is null.  The position handed to handleRightPinch is smoothedPinchPos   *)
(* (the depth-corrected, time-smoothed pinch position); it is an input of  *)
(* the tick.                                                               *)
(***************************************************************************)
ROTATION_SENSITIVITY == 1

NumPalettes == 4

NewCtrl ==
    [isRunning |-> FALSE, isDrawing |-> FALSE, lastSpawnWorldPos |-> Origin,
     isRotating |-> FALSE, rotationPrevPos |-> <<0, 0>>, eraseMode |-> FALSE,
     paletteIndex |-> 0, frameCount |-> 0, currentFps |-> 60,
     lowFpsAccumulator |-> 0, performanceWarning |-> FALSE]

NewController == [grid |-> NewGrid, renderer |-> NullRenderer, ctrl |-> NewCtrl]

(* renderer?.updateGhostPreview(pos, visible) *)
ghost(S, visible) ==
    IF S.renderer.created
    THEN [S EXCEPT !.renderer = updateGhostPreview(S.renderer, visible)]
    ELSE S

(* renderer?.setEraseMode(active) *)
eraseVisual(S, active) ==
    IF S.renderer.created
    THEN [S EXCEPT !.renderer = setEraseMode(S.renderer, active)]
    ELSE S

endDrawing(S) ==
    IF ~S.ctrl.isDrawing THEN S
    ELSE ghost([S EXCEPT !.ctrl.isDrawing = FALSE], FALSE)

(* a placement that does not look at the performance guard *)
spawnUnguarded(S, gx, gy, gz, worldPos) ==
    LET added == add(S.grid, gx, gy, gz) IN
    IF ~added.ret THEN S
    ELSE [S EXCEPT !.grid = added.grid,
                   !.renderer = IF S.renderer.created
                                THEN addBox(S.renderer, gx, gy, gz)
                                ELSE S.renderer,
                   !.ctrl.lastSpawnWorldPos = worldPos]

trySpawnBox(S, gx, gy, gz, worldPos) ==
    IF S.ctrl.performanceWarning THEN S
    ELSE LET added == add(S.grid, gx, gy, gz) IN
         IF ~added.ret THEN S
         ELSE [S EXCEPT !.grid = added.grid,
                        !.renderer = IF S.renderer.created
                                     THEN addBox(S.renderer, gx, gy, gz)
                                     ELSE S.renderer,
                        !.ctrl.lastSpawnWorldPos = worldPos]

(* an erase that forgets the render buffer *)
eraseStoreOnly(S, gx, gy, gz) ==
    [S EXCEPT !.grid = remove(S.grid, gx, gy, gz).grid]

tryEraseBox(S, gx, gy, gz) ==
    LET removed == remove(S.grid, gx, gy, gz) IN
    IF ~removed.ret THEN S
    ELSE [S EXCEPT !.grid = removed.grid,
                   !.renderer = IF S.renderer.created
                                THEN removeBox(S.renderer, gx, gy, gz).renderer
                                ELSE S.renderer]

(* squared Euclidean distance (Vector3.distanceTo, compared squared) *)
DistSq(p, q) ==
    (p[1] - q[1]) * (p[1] - q[1]) + (p[2] - q[2]) * (p[2] - q[2])
        + (p[3] - q[3]) * (p[3] - q[3])

(* a transform that follows the rotation target instead of the displayed   *)
(* rotation                                                                *)
toLocalByTarget(S, worldPos, rotatedPos) ==
    IF S.renderer.created /\ (S.renderer.targetRotX # 0 \/ S.renderer.targetRotY # 0)
    THEN rotatedPos ELSE worldPos

(* worldPos.applyQuaternion(inverse group quaternion): the identity while   *)
(* the group is unrotated; otherwise the rotated image, which the event     *)
(* carries in its field local                                               *)
toLocal(S, worldPos, rotatedPos) ==
    IF S.renderer.created /\ S.renderer.groupRotated THEN rotatedPos ELSE worldPos

placeOrErase(S, gridPos, snappedLocalPos) ==
    IF S.ctrl.eraseMode
    THEN tryEraseBox(S, gridPos.gx, gridPos.gy, gridPos.gz)
    ELSE trySpawnBox(S, gridPos.gx, gridPos.gy, gridPos.gz, snappedLocalPos)

(* a handler whose spacing gate measures from the snapped cell centre *)
handleRightPinchSnappedGate(S, state, worldPos, rotatedPos) ==
    LET localPos == toLocal(S, worldPos, rotatedPos)
        gridPos == worldToGrid(localPos)
        snappedLocalPos == gridToWorld(gridPos)
    IN CASE state = "STARTED" ->
              placeOrErase(ghost([S EXCEPT !.ctrl.isDrawing = TRUE], TRUE),
                           gridPos, snappedLocalPos)
         [] state = "ACTIVE" ->
              IF DistSq(snappedLocalPos, S.ctrl.lastSpawnWorldPos)
                     >= spawnDistance * spawnDistance
              THEN placeOrErase(ghost(S, TRUE), gridPos, snappedLocalPos)
              ELSE ghost(S, TRUE)
         [] state = "ENDED" -> endDrawing(S)
         [] OTHER -> S

handleRightPinch(S, state, worldPos, rotatedPos) ==
    LET localPos == toLocal(S, worldPos, rotatedPos)
        gridPos == worldToGrid(localPos)
        snappedLocalPos == gridToWorld(gridPos)
    IN CASE state = "STARTED" ->
              placeOrErase(ghost([S EXCEPT !.ctrl.isDrawing = TRUE], TRUE),
                           gridPos, snappedLocalPos)
         [] state = "ACTIVE" ->
              LET G == ghost(S, TRUE) IN
              IF DistSq(localPos, S.ctrl.lastSpawnWorldPos) >= spawnDistance * spawnDistance
              THEN placeOrErase(G, gridPos, snappedLocalPos)
              ELSE G
         [] state = "ENDED" -> endDrawing(S)
         [] OTHER -> S

(* an orbit tool that keeps turning after its pinch has ended *)
handleLeftPinchNoLifecycle(S, state, normalizedPosition) ==
    CASE state = "STARTED" ->
             [S EXCEPT !.ctrl.isRotating = TRUE,
                       !.ctrl.rotationPrevPos = normalizedPosition]
      [] state = "ACTIVE" ->
             [S EXCEPT !.renderer =
                           IF S.renderer.created
                           THEN applyRotationDelta(
                                    S.renderer,
                                    -(normalizedPosition[1] - S.ctrl.rotationPrevPos[1])
                                        * ROTATION_SENSITIVITY,
                                    (normalizedPosition[2] - S.ctrl.rotationPrevPos[2])
                                        * ROTATION_SENSITIVITY)
                           ELSE S.renderer,
                       !.ctrl.rotationPrevPos = normalizedPosition]
      [] state = "ENDED" -> [S EXCEPT !.ctrl.isRotating = FALSE]
      [] OTHER -> S

handleLeftPinch(S, state, normalizedPosition) ==
    CASE state = "STARTED" ->
             [S EXCEPT !.ctrl.isRotating = TRUE,
                       !.ctrl.rotationPrevPos = normalizedPosition]
      [] state = "ACTIVE" /\ S.ctrl.isRotating ->
             LET dx == normalizedPosition[1] - S.ctrl.rotationPrevPos[1]
                 dy == normalizedPosition[2] - S.ctrl.rotationPrevPos[2]
             IN [S EXCEPT !.renderer =
                              IF S.renderer.created
                              THEN applyRotationDelta(S.renderer,
                                                      -dx * ROTATION_SENSITIVITY,
                                                      dy * ROTATION_SENSITIVITY)
                              ELSE S.renderer,
                          !.ctrl.rotationPrevPos = normalizedPosition]
      [] state = "ENDED" -> [S EXCEPT !.ctrl.isRotating = FALSE]
      [] OTHER -> S

handleLeftFist(S, state) ==
    IF state = "STARTED" \/ state = "ACTIVE"
    THEN IF ~S.ctrl.eraseMode
         THEN eraseVisual([S EXCEPT !.ctrl.eraseMode = TRUE], TRUE)
         ELSE S
    ELSE IF state = "ENDED"
         THEN eraseVisual([S EXCEPT !.ctrl.eraseMode = FALSE], FALSE)
         ELSE S

(* a palette change that also recentres the view *)
cyclePaletteAndRecentre(S) ==
    LET next == (S.ctrl.paletteIndex + 1) % NumPalettes IN
    [S EXCEPT !.ctrl.paletteIndex = next,
              !.renderer = IF S.renderer.created
                           THEN resetRotation(setPalette(S.renderer, next))
                           ELSE S.renderer]

cyclePalette(S) ==
    LET next == (S.ctrl.paletteIndex + 1) % NumPalettes IN
    [S EXCEPT !.ctrl.paletteIndex = next,
              !.renderer = IF S.renderer.created
                           THEN setPalette(S.renderer, next)
                           ELSE S.renderer]

(* the PINCH branch of the event loop *)
pinchEvent(S, e) ==
    IF e.type = "PINCH"
    THEN IF e.handedness = "right"
         THEN handleRightPinch(S, e.state, e.position, e.local)
         ELSE IF e.handedness = "left"
              THEN handleLeftPinch(S, e.state, e.normalizedPosition)
              ELSE S
    ELSE S

(* the FIST branch of the event loop *)
fistEvent(S, e) ==
    IF e.type = "FIST" /\ e.handedness = "left" THEN handleLeftFist(S, e.state) ELSE S

(* a branch that cycles the palette in every state of the pinky pinch *)
pinkyPinchAnyState(S, e) ==
    IF e.type = "PINKY_PINCH" THEN cyclePalette(S) ELSE S

(* the PINKY_PINCH branch of the event loop *)
pinkyPinchEvent(S, e) ==
    IF e.type = "PINKY_PINCH" /\ e.state = "STARTED" THEN cyclePalette(S) ELSE S

(* one gesture event: the body of the for loop of processHands *)
handleEvent(S, e) == pinkyPinchEvent(fistEvent(pinchEvent(S, e), e), e)

RECURSIVE handleEvents(_, _)
handleEvents(S, events) ==
    IF events = <<>> THEN S
    ELSE handleEvents(handleEvent(S, Head(events)), Tail(events))

Handled(events, type, handedness) ==
    \E i \in 1..Len(events) : events[i].type = type /\ events[i].handedness = handedness

(* an arbitration without the implicit end *)
releaseNothing(S, events) == S

(* no right-hand pinch event this frame: end drawing *)
releaseDrawing(S, events) ==
    IF ~Handled(events, "PINCH", "right") /\ S.ctrl.isDrawing THEN endDrawing(S) ELSE S

(* no left-hand pinch event this frame: end rotation *)
releaseRotation(S, events) ==
    IF ~Handled(events, "PINCH", "left") /\ S.ctrl.isRotating
    THEN [S EXCEPT !.ctrl.isRotating = FALSE]
    ELSE S

(* no left fist event this frame: leave erase mode *)
releaseEraseMode(S, events) ==
    IF ~Handled(events, "FIST", "left") /\ S.ctrl.eraseMode
    THEN eraseVisual([S EXCEPT !.ctrl.eraseMode = FALSE], FALSE)
    ELSE S

(* hands: whether the tracker reports at least one hand; events: what the   *)
(* gesture detector emits for them, in order                                *)
processHands(S, hands, events) ==
    IF ~hands THEN endDrawing(S)
    ELSE releaseEraseMode(
             releaseRotation(releaseDrawing(handleEvents(S, events), events), events),
             events)

(* a guard that keeps its count when a sample is not low *)
warnWithoutRecovery(S) ==
    IF S.ctrl.currentFps < fpsWarningThreshold /\ count(S.grid) > 0
    THEN LET acc == S.ctrl.lowFpsAccumulator + 1 IN
         [S EXCEPT !.ctrl.lowFpsAccumulator = acc,
                   !.ctrl.performanceWarning =
                       IF acc >= fpsWarningDurationSec THEN TRUE
                       ELSE S.ctrl.performanceWarning]
    ELSE S

updatePerformanceWarning(S) ==
    IF S.ctrl.currentFps < fpsWarningThreshold /\ count(S.grid) > 0
    THEN LET acc == S.ctrl.lowFpsAccumulator + 1 IN
         [S EXCEPT !.ctrl.lowFpsAccumulator = acc,
                   !.ctrl.performanceWarning =
                       IF acc >= fpsWarningDurationSec THEN TRUE
                       ELSE S.ctrl.performanceWarning]
    ELSE [S EXCEPT !.ctrl.lowFpsAccumulator = 0]

(* the FPS calculation of a frame.  sample: now - lastFpsUpdate >= 1000 *)
countFrame(S, sample) ==
    LET S1 == [S EXCEPT !.ctrl.frameCount = S.ctrl.frameCount + 1] IN
    IF sample
    THEN updatePerformanceWarning([S1 EXCEPT !.ctrl.currentFps = S1.ctrl.frameCount,
                                             !.ctrl.frameCount = 0])
    ELSE S1

(* renderer?.render(now) *)
renderFrame(S) ==
    IF S.renderer.created THEN [S EXCEPT !.renderer = render(S.renderer)] ELSE S

(* one animation frame *)
loop(S, sample, hands, events) ==
    IF ~S.ctrl.isRunning THEN S
    ELSE renderFrame(processHands(countFrame(S, sample), hands, events))

initialize(S) ==
    IF S.renderer.created THEN S ELSE [S EXCEPT !.renderer = NewRenderer]

start(S, sample, hands, events) ==
    IF S.ctrl.isRunning THEN S
    ELSE loop([initialize(S) EXCEPT !.ctrl.isRunning = TRUE], sample, hands, events)

stop(S) == [S EXCEPT !.ctrl.isRunning = FALSE]

dispose(S) ==
    LET S1 == stop(S) IN
    [S1 EXCEPT !.renderer = NullRenderer, !.grid = clear(S1.grid)]

(* a reset that clears the store and the records and nothing else *)
resetStoreOnly(S) ==
    [S EXCEPT !.grid = clear(S.grid),
              !.renderer = IF S.renderer.created THEN clearBoxes(S.renderer)
                           ELSE S.renderer]

reset(S) ==
    LET R == IF S.renderer.created
             THEN setEraseMode(resetRotation(clearBoxes(S.renderer)), FALSE)
             ELSE S.renderer
    IN [S EXCEPT !.grid = clear(S.grid),
                 !.renderer = R,
                 !.ctrl.isDrawing = FALSE,
                 !.ctrl.isRotating = FALSE,
                 !.ctrl.eraseMode = FALSE,
                 !.ctrl.performanceWarning = FALSE,
                 !.ctrl.lowFpsAccumulator = 0]

(***************************************************************************)
(* History.  lastCall names the operation of the last step, its argument,  *)
(* its return value, whether the frame took an FPS sample, and a snapshot  *)
(* of the state it was called in.  lowRun counts the FPS samples, up to    *)
(* the last one, that were low and taken with an occupied store, without   *)
(* a break (it saturates at MaxLowFps).                                    *)
(***************************************************************************)
Here == [grid |-> grid, renderer |-> renderer, ctrl |-> ctrl]

NoCell == Cell(0, 0, 0)

Snapshot ==
    [isDrawing |-> ctrl.isDrawing, isRotating |-> ctrl.isRotating,
     eraseMode |-> ctrl.eraseMode, performanceWarning |-> ctrl.performanceWarning,
     lowFpsAccumulator |-> ctrl.lowFpsAccumulator,
     count |-> count(grid), instanceCount |-> renderer.instanceCount,
     targetRotX |-> renderer.targetRotX, targetRotY |-> renderer.targetRotY,
     op |-> lastCall.op, ret |-> lastCall.ret]

Call(op, cell, ret, sample) ==
    [op |-> op, cell |-> cell, ret |-> ret, sample |-> sample, pre |-> Snapshot]

(* the slot of the first record of a cell, -1 without one *)
SlotOf(r, c) ==
    LET i == findIndex(r.boxes, c.gx, c.gy, c.gz) IN
    IF i = 0 THEN -1 ELSE r.boxes[i].instanceIndex

Become(S) == grid' = S.grid /\ renderer' = S.renderer /\ ctrl' = S.ctrl

(***************************************************************************)
(* The occupancy store on its own: add, remove and clear in any order.     *)
(***************************************************************************)
Init ==
    /\ grid = NewGrid
    /\ renderer = NullRenderer
    /\ ctrl = NewCtrl
    /\ lastCall = [op |-> "new", cell |-> NoCell, ret |-> FALSE, sample |-> FALSE,
                   pre |-> [isDrawing |-> FALSE, isRotating |-> FALSE,
                            eraseMode |-> FALSE, performanceWarning |-> FALSE,
                            lowFpsAccumulator |-> 0, count |-> 0, instanceCount |-> 0,
                            targetRotX |-> 0, targetRotY |-> 0,
                            op |-> "new", ret |-> FALSE]]
    /\ lowRun = 0

GridAdd ==
    \E c \in Cells :
        LET a == add(grid, c.gx, c.gy, c.gz) IN
        /\ grid' = a.grid
        /\ lastCall' = Call("add", c, a.ret, FALSE)
        /\ UNCHANGED <<renderer, ctrl, lowRun>>

GridRemove ==
    \E c \in Cells :
        LET a == remove(grid, c.gx, c.gy, c.gz) IN
        /\ grid' = a.grid
        /\ lastCall' = Call("remove", c, a.ret, FALSE)
        /\ UNCHANGED <<renderer, ctrl, lowRun>>

GridClear ==
    /\ grid' = clear(grid)
    /\ lastCall' = Call("clear", NoCell, TRUE, FALSE)
    /\ UNCHANGED <<renderer, ctrl, lowRun>>

NextGrid == GridAdd \/ GridRemove \/ GridClear

SpecGrid == Init /\ [][NextGrid]_vars

(***************************************************************************)
(* Properties of the occupancy store (SpecGrid).                           *)
(***************************************************************************)
(* the cells whose key is in the store *)
OccupiedCells(g) == {c \in Cells : voxelKey(c.gx, c.gy, c.gz) \in g.occupied}

MinOf(S) == CHOOSE x \in S : \A y \in S : x <= y

MaxOf(S) == CHOOSE x \in S : \A y \in S : x >= y

TrueYRange(g) ==
    LET ys == {c.gy : c \in OccupiedCells(g)} IN
    IF ys = {} THEN [minY |-> 0, maxY |-> 0]
    ELSE [minY |-> MinOf(ys), maxY |-> MaxOf(ys)]

(* C4: in every state reachable by add, remove and clear the store holds   *)
(* at most maxCells cells.                                                 *)
C4_CapacityBound == count(grid) <= maxCells

(* an add of a free cell was refused because the store is full *)
C4_Witness ==
    /\ lastCall.op = "add" /\ ~lastCall.ret
    /\ count(grid) = maxCells
    /\ lastCall.cell \notin OccupiedCells(grid)

(* C5: while the store is full every add returns false and changes         *)
(* nothing; right after a successful remove from the full store an add of  *)
(* a free cell returns true and the store is full again; an add never      *)
(* removes a cell.                                                         *)
C5_CapacityRecovery ==
    [][/\ (lastCall'.op = "add" /\ count(grid) = maxCells)
            => (~lastCall'.ret /\ grid' = grid)
       /\ (/\ lastCall'.op = "add"
           /\ lastCall.op = "remove" /\ lastCall.ret /\ lastCall.pre.count = maxCells
           /\ lastCall'.cell \notin OccupiedCells(grid))
            => (lastCall'.ret /\ count(grid') = maxCells)
       /\ (lastCall'.op = "add") => (grid.occupied \subseteq grid'.occupied)]_vars

(* the store was full, one cell was removed, and the add that followed succeeded *)
C5_Witness ==
    /\ lastCall.op = "add" /\ lastCall.ret
    /\ lastCall.pre.op = "remove" /\ lastCall.pre.ret
    /\ lastCall.pre.count = maxCells - 1
    /\ count(grid) = maxCells

(* C6: an add or a remove that returns false leaves the occupied set, the  *)
(* count and getYRange() as they were.                                     *)
C6_FailedOpsAreNoOps ==
    [][(lastCall'.op \in {"add", "remove"} /\ ~lastCall'.ret)
          => /\ grid'.occupied = grid.occupied
             /\ count(grid') = count(grid)
             /\ getYRange(grid') = getYRange(grid)]_vars

(* a refused add of a cell that lies below the extent of the full store *)
C6_Witness ==
    /\ lastCall.op = "add" /\ ~lastCall.ret
    /\ count(grid) = maxCells
    /\ lastCall.cell.gy < getYRange(grid).minY

(* C7: getYRange() is the true minimum and maximum gy of the occupied      *)
(* cells, and {0, 0} for the empty store.                                  *)
C7_ExtentCorrect ==
    /\ \A k \in grid.occupied : \E c \in Cells : k = voxelKey(c.gx, c.gy, c.gz)
    /\ getYRange(grid) = TrueYRange(grid)

(* the topmost cell was removed and only cells with negative gy are left *)
C7_Witness ==
    /\ lastCall.op = "remove" /\ lastCall.ret
    /\ count(grid) > 0
    /\ getYRange(grid).maxY < 0
    /\ lastCall.cell.gy >= 0

(***************************************************************************)
(* The render buffer on its own: addBox, removeBox and clearBoxes called   *)
(* in any order on an initialized renderer, next to the controller's write *)
(* path (trySpawnBox, tryEraseBox) on the same renderer and store.         *)
(***************************************************************************)
RendererCells == {Cell(0, -1, 0), Cell(0, 0, 0), Cell(0, 1, 0), Cell(1, 0, 0)}

(* the history of this specification: the call, its cell, its result and   *)
(* the slot its cell held before the call                                  *)
BufferCall(op, cell, ret, slot) ==
    [op |-> op, cell |-> cell, ret |-> ret, sample |-> FALSE, pre |-> [slot |-> slot]]

InitRenderer ==
    /\ grid = NewGrid
    /\ renderer = NewRenderer
    /\ ctrl = NewCtrl
    /\ lastCall = BufferCall("new", NoCell, FALSE, -1)
    /\ lowRun = 0

AddBoxCall(CS) ==
    \E c \in CS :
        /\ renderer.instanceCount < MaxInstances
        /\ renderer' = addBox(renderer, c.gx, c.gy, c.gz)
        /\ lastCall' = BufferCall("addBox", c, TRUE, -1)
        /\ UNCHANGED <<grid, ctrl, lowRun>>

RemoveBoxCall ==
    \E c \in RendererCells :
        LET a == removeBox(renderer, c.gx, c.gy, c.gz) IN
        /\ renderer' = a.renderer
        /\ lastCall' = BufferCall(IF a.threw THEN "removeBox throws" ELSE "removeBox",
                                c, a.ret, SlotOf(renderer, c))
        /\ UNCHANGED <<grid, ctrl, lowRun>>

ClearBoxesCall ==
    /\ renderer' = clearBoxes(renderer)
    /\ lastCall' = BufferCall("clearBoxes", NoCell, TRUE, -1)
    /\ UNCHANGED <<grid, ctrl, lowRun>>

SpawnCall ==
    \E c \in RendererCells :
        /\ renderer.instanceCount < MaxInstances
        /\ Become(trySpawnBox(Here, c.gx, c.gy, c.gz, gridToWorld(c)))
        /\ lastCall' = BufferCall("trySpawnBox", c, count(grid') > count(grid), -1)
        /\ UNCHANGED lowRun

EraseCall ==
    \E c \in RendererCells :
        /\ Become(tryEraseBox(Here, c.gx, c.gy, c.gz))
        /\ lastCall' = BufferCall("tryEraseBox", c, count(grid') < count(grid),
                                SlotOf(renderer, c))
        /\ UNCHANGED lowRun

NextRenderer == AddBoxCall(RendererCells) \/ RemoveBoxCall \/ ClearBoxesCall

SpecRenderer == InitRenderer /\ [][NextRenderer]_vars

(* the controller's write path, and addBox called past it *)
NextBuffer == SpawnCall \/ EraseCall \/ AddBoxCall({NoCell})

SpecBuffer == InitRenderer /\ [][NextBuffer]_vars

(***************************************************************************)
(* Properties of the render buffer (SpecRenderer).                         *)
(***************************************************************************)
Slots(r) == {r.boxes[i].instanceIndex : i \in 1..Len(r.boxes)}

CellOf(b) == Cell(b.gx, b.gy, b.gz)

(* C2: the slots of the live records are pairwise distinct and are exactly *)
(* 0 .. instanceCount-1, and there are instanceCount live records.         *)
C2_DenseRange ==
    /\ Len(renderer.boxes) = renderer.instanceCount
    /\ Slots(renderer) = 0..(renderer.instanceCount - 1)
    /\ \A i, j \in 1..Len(renderer.boxes) :
          renderer.boxes[i].instanceIndex = renderer.boxes[j].instanceIndex => i = j

(* a removal has left the list order different from the slot order *)
C2_Witness ==
    /\ lastCall.op = "removeBox" /\ lastCall.ret
    /\ \E i \in 1..Len(renderer.boxes) : renderer.boxes[i].instanceIndex # i - 1

(* C3: removeBox of a cell without a record returns false and changes      *)
(* nothing; otherwise one record of that cell leaves the list,             *)
(* instanceCount drops by one, the record that held slot instanceCount-1   *)
(* takes the vacated slot (when the removed record did not hold it), and   *)
(* every other record keeps its slot and its cell.                         *)
C3_SwapAndPop ==
    [][lastCall'.op = "removeBox" =>
        LET c == lastCall'.cell
            B == renderer.boxes
            B2 == renderer'.boxes
            n == renderer.instanceCount
        IN IF \A i \in 1..Len(B) : CellOf(B[i]) # c
           THEN ~lastCall'.ret /\ renderer' = renderer
           ELSE /\ lastCall'.ret
                /\ renderer'.instanceCount = n - 1
                /\ Len(B2) = Len(B) - 1
                /\ \E i \in 1..Len(B) :
                      /\ CellOf(B[i]) = c
                      /\ \A j \in (1..Len(B)) \ {i} :
                            LET j2 == IF j < i THEN j ELSE j - 1 IN
                            /\ CellOf(B2[j2]) = CellOf(B[j])
                            /\ B2[j2].instanceIndex =
                                  IF B[j].instanceIndex = n - 1
                                  THEN B[i].instanceIndex
                                  ELSE B[j].instanceIndex]_vars

(* scenario D: of three records the one in slot 1 was removed and the      *)
(* record of slot 2 now holds slot 1, next to the untouched slot 0         *)
C3_Witness ==
    /\ lastCall.op = "removeBox" /\ lastCall.ret
    /\ lastCall.pre.slot = 1
    /\ Len(renderer.boxes) = 2
    /\ renderer.boxes[1].instanceIndex = 0
    /\ renderer.boxes[2].instanceIndex = 1

(* the records mirror the store: one record per occupied cell and no other *)
Mirrors(g, r) ==
    /\ r.instanceCount = count(g)
    /\ Len(r.boxes) = count(g)
    /\ {CellOf(r.boxes[i]) : i \in 1..Len(r.boxes)} = OccupiedCells(g)

(* C8 as claimed: no sequence of addBox, removeBox and clearBoxes calls    *)
(* takes instanceCount above maxBoxes.                                     *)
C8_AsClaimed == renderer.instanceCount <= maxBoxes

(* C8 amended: instanceCount is at most maxBoxes in every state in which   *)
(* the records mirror the occupancy store.                                 *)
C8_BoundWhileMirrored == Mirrors(grid, renderer) => renderer.instanceCount <= maxBoxes

(* the controller's trySpawnBox of a free cell was refused with the buffer *)
(* full and in step with the store                                         *)
C8_Witness ==
    /\ lastCall.op = "trySpawnBox" /\ ~lastCall.ret
    /\ renderer.instanceCount = maxBoxes
    /\ Mirrors(grid, renderer)
    /\ lastCall.cell \notin OccupiedCells(grid)

(***************************************************************************)
(* The controller: start(), animation frames and reset().                  *)
(*                                                                         *)
(* The inputs of a frame are: sample (a second has passed since the last   *)
(* FPS sample), hands (the tracker reports at least one hand) and the      *)
(* gesture events of the frame in the detector's order.  The detector      *)
(* emits at most one event per gesture type and hand in a frame.           *)
(***************************************************************************)
Event(type, state, handedness, position, normalizedPosition) ==
    [type |-> type, state |-> state, handedness |-> handedness,
     position |-> position, local |-> position,
     normalizedPosition |-> normalizedPosition]

States == {"STARTED", "ACTIVE", "ENDED"}

(* right-hand pinches at the positions P *)
RightPinches(P) ==
    {Event("PINCH", st, "right", p, <<0, 0>>) : st \in {"STARTED", "ACTIVE"}, p \in P}
        \cup {Event("PINCH", "ENDED", "right", Origin, <<0, 0>>)}

(* left-hand pinches at the normalized screen positions N *)
LeftPinches(N) ==
    {Event("PINCH", st, "left", Origin, n) : st \in {"STARTED", "ACTIVE"}, n \in N}
        \cup {Event("PINCH", "ENDED", "left", Origin, <<0, 0>>)}

LeftFists == {Event("FIST", st, "left", Origin, <<0, 0>>) : st \in States}

Optional(E) == {<<>>} \cup {<<e>> : e \in E}

(* at most one event of each of two kinds, in either order *)
EitherOrder(E1, E2) ==
    {a \o b : a \in Optional(E1), b \in Optional(E2)}
        \cup {b \o a : a \in Optional(E1), b \in Optional(E2)}

(* at most one event of each of three kinds, in this order *)
InOrder(E1, E2, E3) ==
    {a \o b \o c : a \in Optional(E1), b \in Optional(E2), c \in Optional(E3)}

CellCentres == {gridToWorld(c) : c \in RendererCells}

(* what the frame's FPS sample counts as low *)
LowSample(sample) ==
    sample /\ ctrl.frameCount + 1 < fpsWarningThreshold /\ count(grid) > 0

(* the frames the exploration takes: pace "fast" takes no sample below the *)
(* threshold, pace "slow" samples in every frame, pace "any" is free       *)
FrameInBounds(pace, sample) ==
    /\ ~sample => ctrl.frameCount + 1 < MaxFrameCount
    /\ LowSample(sample) => ctrl.lowFpsAccumulator < MaxLowFps
    /\ pace = "fast" => (sample => ctrl.frameCount + 1 >= fpsWarningThreshold)
    /\ pace = "slow" => sample

Abs(x) == IF x < 0 THEN -x ELSE x

NoPre ==
    [isDrawing |-> FALSE, isRotating |-> FALSE, eraseMode |-> FALSE,
     performanceWarning |-> FALSE, lowFpsAccumulator |-> 0, count |-> 0,
     instanceCount |-> 0, targetRotX |-> 0, targetRotY |-> 0,
     op |-> "", ret |-> FALSE]

FrameCall(op, sample) ==
    [op |-> op, cell |-> NoCell, ret |-> FALSE, sample |-> sample, pre |-> NoPre]

LowRunAfter(sample) ==
    IF ~sample THEN lowRun
    ELSE IF LowSample(sample)
         THEN (IF lowRun < MaxLowFps THEN lowRun + 1 ELSE lowRun)
         ELSE 0

(* the step to T, as long as the yaw target stays within the exploration *)
BecomeInBounds(T) == Abs(T.renderer.targetRotY) <= MaxYaw /\ Become(T)

Start(Lists, pace) ==
    \E sample \in BOOLEAN, hands \in BOOLEAN, events \in Lists :
        /\ ~ctrl.isRunning
        /\ hands \/ events = <<>>
        /\ FrameInBounds(pace, sample)
        /\ BecomeInBounds(start(Here, sample, hands, events))
        /\ lastCall' = FrameCall("start", sample)
        /\ lowRun' = LowRunAfter(sample)

Frame(Lists, pace) ==
    \E sample \in BOOLEAN, hands \in BOOLEAN, events \in Lists :
        /\ ctrl.isRunning
        /\ hands \/ events = <<>>
        /\ FrameInBounds(pace, sample)
        /\ BecomeInBounds(loop(Here, sample, hands, events))
        /\ lastCall' = FrameCall("loop", sample)
        /\ lowRun' = LowRunAfter(sample)

(* reset(); remember: whether the history keeps the state it was called in *)
Reset(remember) ==
    /\ Become(reset(Here))
    /\ lastCall' = IF remember THEN Call("reset", NoCell, FALSE, FALSE)
                   ELSE FrameCall("reset", FALSE)
    /\ UNCHANGED lowRun

Stop ==
    /\ Become(stop(Here))
    /\ lastCall' = FrameCall("stop", FALSE)
    /\ UNCHANGED lowRun

Dispose ==
    /\ Become(dispose(Here))
    /\ lastCall' = FrameCall("dispose", FALSE)
    /\ UNCHANGED lowRun

(* drawing and erasing over the cells of the exploration *)
EditLists == EitherOrder(LeftFists, RightPinches(CellCentres))

Next ==
    \/ Start(EditLists, "fast")
    \/ Frame(EditLists, "fast")
    \/ Reset(FALSE)
    \/ Stop
    \/ Dispose

Spec == Init /\ [][Next]_vars

(***************************************************************************)
(* Properties of the controller's write path (Spec).                       *)
(***************************************************************************)
(* C1: between any two operations of the controller the live records and   *)
(* the occupied cells correspond one to one (each occupied cell has a      *)
(* record, each record's cell is occupied, no cell has two records) and    *)
(* instanceCount equals grid.count.                                        *)
C1_StoreBufferBijection ==
    /\ Mirrors(grid, renderer)
    /\ \A k \in grid.occupied : \E c \in Cells : k = voxelKey(c.gx, c.gy, c.gz)
    /\ \A i, j \in 1..Len(renderer.boxes) :
          CellOf(renderer.boxes[i]) = CellOf(renderer.boxes[j]) => i = j

(* a frame of the running controller after placements and an erasure: the  *)
(* erasure moved the record of the last slot, so list and slot order       *)
(* differ                                                                  *)
C1_Witness ==
    /\ lastCall.op = "loop"
    /\ count(grid) >= 2
    /\ renderer.instanceCount = count(grid)
    /\ \E i \in 1..Len(renderer.boxes) : renderer.boxes[i].instanceIndex # i - 1

(***************************************************************************)
(* The performance guard: frames at any pace over one cell that is drawn   *)
(* and erased.                                                             *)
(***************************************************************************)
PerfLists == EitherOrder(LeftFists, RightPinches({Origin}))

NextPerf == Start(PerfLists, "any") \/ Frame(PerfLists, "any") \/ Reset(FALSE)

SpecPerf == Init /\ [][NextPerf]_vars

(* C10: performanceWarning turns true only in a frame whose FPS sample     *)
(* completes fpsWarningDurationSec consecutive samples that were below     *)
(* fpsWarningThreshold with an occupied store; such a sample raises the    *)
(* consecutive-low count by one, and every other sample sets it to zero.   *)
C10_GuardTrigger ==
    [][/\ (~ctrl.performanceWarning /\ ctrl'.performanceWarning)
            => (/\ lastCall'.sample
                /\ LowSample(TRUE)
                /\ lowRun' >= fpsWarningDurationSec)
       /\ (lastCall'.op \in {"start", "loop"} /\ lastCall'.sample /\ LowSample(TRUE))
            => ctrl'.lowFpsAccumulator = ctrl.lowFpsAccumulator + 1
       /\ (lastCall'.op \in {"start", "loop"} /\ lastCall'.sample /\ ~LowSample(TRUE))
            => ctrl'.lowFpsAccumulator = 0]_vars

(* the third low sample in a row has just blocked placement *)
C10_Witness ==
    /\ lastCall.op = "loop" /\ lastCall.sample
    /\ ctrl.performanceWarning
    /\ lowRun = fpsWarningDurationSec
    /\ ctrl.lowFpsAccumulator = fpsWarningDurationSec

(***************************************************************************)
(* reset() in the middle of gestures: one cell that is drawn and erased,   *)
(* the left hand rotating, and an FPS sample in every frame.               *)
(***************************************************************************)
ResetLists ==
    InOrder(LeftFists, LeftPinches({<<0, 0>>, <<1, 1>>}), RightPinches({Origin}))

NextReset == Start(ResetLists, "slow") \/ Frame(ResetLists, "slow") \/ Reset(TRUE)

SpecReset == Init /\ [][NextReset]_vars

(* C9: in the state right after reset(), whatever the state it was called  *)
(* in, the store is empty, the renderer has no records and instanceCount   *)
(* is 0, isDrawing, isRotating and eraseMode are false, the performance    *)
(* block and its count are cleared and the rotation target is (0, 0).      *)
C9_ResetClearsAll ==
    [][lastCall'.op = "reset" =>
        /\ count(grid') = 0
        /\ renderer'.boxes = <<>>
        /\ renderer'.instanceCount = 0
        /\ ~ctrl'.isDrawing /\ ~ctrl'.isRotating /\ ~ctrl'.eraseMode
        /\ ~renderer'.eraseMode
        /\ ~ctrl'.performanceWarning
        /\ ctrl'.lowFpsAccumulator = 0
        /\ renderer'.targetRotX = 0 /\ renderer'.targetRotY = 0]_vars

(* reset() was called while drawing, rotating and erasing at once, with    *)
(* placement blocked, a cell occupied and the model turned                 *)
C9_Witness ==
    /\ lastCall.op = "reset"
    /\ lastCall.pre.isDrawing /\ lastCall.pre.isRotating /\ lastCall.pre.eraseMode
    /\ lastCall.pre.performanceWarning
    /\ lastCall.pre.count > 0 /\ lastCall.pre.instanceCount > 0
    /\ lastCall.pre.targetRotX # 0 /\ lastCall.pre.targetRotY # 0
    /\ count(grid) = 0
    /\ ~ctrl.isDrawing

(***************************************************************************)
(* More properties of the performance guard (SpecPerf).                    *)
(***************************************************************************)
(* C11 as claimed: a blocked placement stays blocked through every step    *)
(* that is neither a recovery (an FPS sample at or above                   *)
(* fpsWarningThreshold) nor a reset(), and placement is allowed again      *)
(* right after a recovery and right after a reset().                       *)
C11_ReleasedOnRecoveryOrReset ==
    [][/\ (lastCall'.op \in {"start", "loop"} /\ lastCall'.sample
            /\ ctrl'.currentFps >= fpsWarningThreshold)
            => ~ctrl'.performanceWarning
       /\ (lastCall'.op = "reset") => ~ctrl'.performanceWarning
       /\ (/\ ctrl.performanceWarning
           /\ lastCall'.op # "reset"
           /\ ~(lastCall'.sample /\ ctrl'.currentFps >= fpsWarningThreshold))
            => ctrl'.performanceWarning]_vars

(***************************************************************************)
(* Ticks whose inputs the history keeps: lastCall holds whether the        *)
(* tracker reported a hand, the events of the tick and the state the tick  *)
(* started in.                                                             *)
(***************************************************************************)
TickCall(sample, hands, events) ==
    [op |-> "tick", cell |-> NoCell, ret |-> FALSE, sample |-> sample,
     hands |-> hands, events |-> events, pre |-> Here]

Tick(Lists, pace) ==
    \E sample \in BOOLEAN, hands \in BOOLEAN, events \in Lists :
        /\ ctrl.isRunning
        /\ hands \/ events = <<>>
        /\ FrameInBounds(pace, sample)
        /\ BecomeInBounds(loop(Here, sample, hands, events))
        /\ lastCall' = TickCall(sample, hands, events)
        /\ lowRun' = LowRunAfter(sample)

(* the events of a tick that match a type, a hand and one of the states *)
Seen(events, type, handedness, states) ==
    \E i \in 1..Len(events) :
        /\ events[i].type = type
        /\ events[i].handedness = handedness
        /\ events[i].state \in states

(* lists made of a list of A followed by a list of B *)
Then(A, B) == {a \o b : a \in A, b \in B}

(***************************************************************************)
(* Gestures of both hands over one cell: the left fist and the right       *)
(* pinch in either order, then the left pinch.                             *)
(***************************************************************************)
GestureLists ==
    Then(EitherOrder(LeftFists, RightPinches({Origin})),
         Optional(LeftPinches({<<0, 0>>})))

NextGesture ==
    Start({<<>>}, "fast") \/ Tick(GestureLists, "fast") \/ Reset(FALSE)

SpecGesture == Init /\ [][NextGesture]_vars

(***************************************************************************)
(* The performance guard next to the gestures: frames at any pace with the *)
(* left fist, the right pinch over one cell and the left pinch.            *)
(***************************************************************************)
PinkyPinches == {Event("PINKY_PINCH", "STARTED", h, Origin, <<0, 0>>) : h \in {"left", "right"}}

GuardEvents ==
    LeftFists \cup RightPinches({Origin}) \cup LeftPinches({<<0, 0>>, <<1, 0>>})
        \cup PinkyPinches

GuardLists == InOrder(LeftFists, RightPinches({Origin}), LeftPinches({<<0, 0>>}))

NextGuard == Start({<<>>}, "any") \/ Frame(GuardLists, "any") \/ Reset(FALSE)

SpecGuard == Init /\ [][NextGuard]_vars

(* the state S with the performance guard inactive / active *)
Unblocked(S) == [S EXCEPT !.ctrl.performanceWarning = FALSE]

Blocked(S) == [S EXCEPT !.ctrl.performanceWarning = TRUE]

IsRightPinch(e) == e.type = "PINCH" /\ e.handedness = "right"

(* C12: while performanceWarning is true, a right-hand pinch event handled *)
(* in place mode leaves the store and the render buffer as they are, and a *)
(* right-hand pinch in erase mode, a left-hand pinch and a pinky pinch     *)
(* have the effect they have from the same state with the guard inactive.  *)
C12_GuardBlocksOnlyPlacement ==
    ctrl.performanceWarning =>
        \A e \in GuardEvents :
            /\ (IsRightPinch(e) /\ ~ctrl.eraseMode) =>
                   /\ handleEvent(Here, e).grid = grid
                   /\ handleEvent(Here, e).renderer.boxes = renderer.boxes
                   /\ handleEvent(Here, e).renderer.instanceCount = renderer.instanceCount
            /\ ((IsRightPinch(e) /\ ctrl.eraseMode) \/ ~IsRightPinch(e)) =>
                   handleEvent(Here, e) = Blocked(handleEvent(Unblocked(Here), e))

(* placement is blocked and the right hand pinches in place mode over the  *)
(* free cell, which stays free                                             *)
C12_Witness ==
    /\ lastCall.op = "loop"
    /\ ctrl.performanceWarning
    /\ ctrl.isDrawing /\ ~ctrl.eraseMode
    /\ count(grid) = 0 /\ renderer.instanceCount = 0

(***************************************************************************)
(* Properties of the gesture arbitration (SpecGesture).                    *)
(***************************************************************************)
(* C13 as claimed: after a tick in which the tracker reports no hand,      *)
(* isDrawing, isRotating and eraseMode are false, the erase visual is off  *)
(* and the preview cursor is hidden.                                       *)
C13_ZeroHandsEndsAll ==
    [][(lastCall'.op = "tick" /\ ~lastCall'.hands) =>
          /\ ~ctrl'.isDrawing /\ ~ctrl'.isRotating /\ ~ctrl'.eraseMode
          /\ ~renderer'.eraseMode
          /\ ~renderer'.ghostVisible]_vars

(* C14: in a tick with a detected hand, a role that was active when the   *)
(* tick began and has no event in the tick is ended by the end of the      *)
(* tick: drawing (right-hand PINCH; the preview cursor is hidden),         *)
(* rotating (left-hand PINCH) and erase mode (left-hand FIST; the erase    *)
(* visual is off).                                                         *)
C14_ImplicitEnd ==
    [][(lastCall'.op = "tick" /\ lastCall'.hands) =>
          /\ (ctrl.isDrawing /\ ~Seen(lastCall'.events, "PINCH", "right", States))
                => (~ctrl'.isDrawing /\ ~renderer'.ghostVisible)
          /\ (ctrl.isRotating /\ ~Seen(lastCall'.events, "PINCH", "left", States))
                => ~ctrl'.isRotating
          /\ (ctrl.eraseMode /\ ~Seen(lastCall'.events, "FIST", "left", States))
                => (~ctrl'.eraseMode /\ ~renderer'.eraseMode)]_vars

(* a hand is detected but no event arrives while drawing, rotating and     *)
(* erase mode were all on: all three are off after the tick                *)
C14_Witness ==
    /\ lastCall.op = "tick" /\ lastCall.hands /\ lastCall.events = <<>>
    /\ lastCall.pre.ctrl.isDrawing /\ lastCall.pre.renderer.ghostVisible
    /\ lastCall.pre.ctrl.isRotating
    /\ lastCall.pre.ctrl.eraseMode /\ lastCall.pre.renderer.eraseMode
    /\ ~ctrl.isDrawing /\ ~ctrl.isRotating /\ ~ctrl.eraseMode
    /\ ~renderer.ghostVisible /\ ~renderer.eraseMode

(* C15 as claimed: a tick removes a cell from the store only if a         *)
(* left-hand FIST event with state STARTED or ACTIVE is among its events.  *)
C15_EraseOnlyWhileFistHeld ==
    [][(lastCall'.op = "tick" /\ count(grid') < count(grid)) =>
          Seen(lastCall'.events, "FIST", "left", {"STARTED", "ACTIVE"})]_vars

(* C16 as claimed: after a tick that handled a right-hand PINCH ENDED     *)
(* event, in whatever state the tick began, the preview cursor is hidden   *)
(* and isDrawing is false.                                                 *)
C16_EndedHidesPreview ==
    [][(lastCall'.op = "tick" /\ Seen(lastCall'.events, "PINCH", "right", {"ENDED"})) =>
          (~ctrl'.isDrawing /\ ~renderer'.ghostVisible)]_vars

(***************************************************************************)
(* Strokes of the right hand at half-cell steps along the x axis, with the *)
(* build group turned by the left hand.  While the group is turned an      *)
(* event carries in its field local the image of its position under a      *)
(* quarter turn about the y axis.                                          *)
(***************************************************************************)
QuarterTurn(p) == <<-p[3], p[2], p[1]>>

Turned(e) == [e EXCEPT !.local = QuarterTurn(e.position)]

StrokePositions == {<<0, 0, 0>>, <<1, 0, 0>>, <<2, 0, 0>>}

StrokePinches == {Turned(e) : e \in RightPinches(StrokePositions)}

(* the left hand starts a drag and moves it one step to the right *)
Drags ==
    {Event("PINCH", "STARTED", "left", Origin, <<0, 0>>),
     Event("PINCH", "ACTIVE", "left", Origin, <<1, 0>>)}

FistHeld == {Event("FIST", "ACTIVE", "left", Origin, <<0, 0>>)}

StrokeLists == InOrder(FistHeld, StrokePinches, Drags)

(* the right-hand pinch events among the events of a tick *)
RightOf(events) == SelectSeq(events, IsRightPinch)

(* the history of a stroke tick: its right-hand pinch event and, of the    *)
(* state the tick began in, what the stroke reads                          *)
StrokeCall(sample, hands, events) ==
    [op |-> "tick", cell |-> NoCell, ret |-> FALSE, sample |-> sample,
     hands |-> hands, events |-> RightOf(events),
     pre |-> [lastSpawnWorldPos |-> ctrl.lastSpawnWorldPos,
              groupRotated |-> renderer.groupRotated,
              eraseMode |-> ctrl.eraseMode,
              grid |-> grid]]

Stroke(Lists, pace) ==
    \E sample \in BOOLEAN, hands \in BOOLEAN, events \in Lists :
        /\ ctrl.isRunning
        /\ hands \/ events = <<>>
        /\ FrameInBounds(pace, sample)
        /\ BecomeInBounds(loop(Here, sample, hands, events))
        /\ lastCall' = StrokeCall(sample, hands, events)
        /\ lowRun' = LowRunAfter(sample)

NextStroke ==
    Start({<<>>}, "fast") \/ Stroke(StrokeLists, "fast") \/ Reset(FALSE)

SpecStroke == Init /\ [][NextStroke]_vars

(* the build-local position an event is handled at *)
LocalOf(e) == IF renderer.groupRotated THEN e.local ELSE e.position

(* C17: a tick whose right-hand PINCH event is ACTIVE at a build-local     *)
(* (rotated, unsnapped) position closer than spawnDistance to the last     *)
(* spawn position leaves the store and the render buffer unchanged.        *)
C17_SpacingGate ==
    [][(lastCall'.op = "tick" /\ Len(lastCall'.events) = 1
          /\ lastCall'.events[1].state = "ACTIVE"
          /\ DistSq(LocalOf(lastCall'.events[1]), ctrl.lastSpawnWorldPos)
                < spawnDistance * spawnDistance) =>
          /\ grid' = grid
          /\ renderer'.boxes = renderer.boxes
          /\ renderer'.instanceCount = renderer.instanceCount]_vars

(* with the group turned, the hand has moved half a cell from the last     *)
(* spawn position into the region of a free cell, in place mode: the cell  *)
(* stays free                                                              *)
C17_Witness ==
    /\ lastCall.op = "tick" /\ Len(lastCall.events) = 1
    /\ lastCall.events[1].state = "ACTIVE"
    /\ lastCall.events[1].position = <<1, 0, 0>>
    /\ lastCall.pre.groupRotated /\ ~lastCall.pre.eraseMode
    /\ lastCall.pre.lastSpawnWorldPos = Origin
    /\ voxelKey(0, 0, 1) \notin grid.occupied
    /\ grid = lastCall.pre.grid /\ count(grid) > 0

(* C18 as claimed: after a tick whose right-hand PINCH event is STARTED,  *)
(* in place mode or in erase mode and whether or not the add or remove     *)
(* succeeded, the last spawn position is the centre of the cell the event  *)
(* snapped to.                                                             *)
C18_StartedRecordsSpawnPosition ==
    [][(lastCall'.op = "tick" /\ Len(lastCall'.events) = 1
          /\ lastCall'.events[1].state = "STARTED") =>
          ctrl'.lastSpawnWorldPos =
              gridToWorld(worldToGrid(LocalOf(lastCall'.events[1])))]_vars

(***************************************************************************)
(* The orbit tool: drags of the left hand over a few screen positions.     *)
(***************************************************************************)
ScreenPositions == {<<0, 0>>, <<1, 0>>, <<0, 1>>, <<0, 2>>}

OrbitLists == Optional(LeftPinches(ScreenPositions))

NextOrbit == Start({<<>>}, "fast") \/ Tick(OrbitLists, "fast") \/ Reset(FALSE)

SpecOrbit == Init /\ [][NextOrbit]_vars

Target(r) == <<r.targetRotX, r.targetRotY>>

(* C19: a tick changes the rotation target only by a left-hand PINCH       *)
(* ACTIVE event handled while isRotating is true; that event adds the      *)
(* delta from the previously sampled position (yaw -dx, pitch +dy,         *)
(* clamped) and makes its position the new snapshot; isRotating is true    *)
(* after a tick with a hand only if the tick handled STARTED, or handled   *)
(* ACTIVE while already rotating; after ENDED or an implicit end           *)
(* isRotating is false and the target is as before, so later ACTIVE events *)
(* leave it alone until the next STARTED.                                  *)
C19_OrbitLifecycle ==
    [][lastCall'.op = "tick" =>
          LET ev == lastCall'.events
              n == IF ev = <<>> THEN <<0, 0>> ELSE ev[1].normalizedPosition
              dx == n[1] - ctrl.rotationPrevPos[1]
              dy == n[2] - ctrl.rotationPrevPos[2]
          IN /\ (Target(renderer') # Target(renderer)) =>
                    (Seen(ev, "PINCH", "left", {"ACTIVE"}) /\ ctrl.isRotating)
             /\ (Seen(ev, "PINCH", "left", {"ACTIVE"}) /\ ctrl.isRotating) =>
                    /\ renderer'.targetRotY = renderer.targetRotY - dx * ROTATION_SENSITIVITY
                    /\ renderer'.targetRotX =
                           Clamp(-MAX_TILT,
                                 renderer.targetRotX + dy * ROTATION_SENSITIVITY,
                                 MAX_TILT)
                    /\ ctrl'.rotationPrevPos = n
                    /\ ctrl'.isRotating
             /\ (lastCall'.hands /\ ctrl'.isRotating) =>
                    \/ Seen(ev, "PINCH", "left", {"STARTED"})
                    \/ (Seen(ev, "PINCH", "left", {"ACTIVE"}) /\ ctrl.isRotating)
             /\ (lastCall'.hands /\ ~Seen(ev, "PINCH", "left", {"STARTED", "ACTIVE"})) =>
                    (~ctrl'.isRotating /\ Target(renderer') = Target(renderer))]_vars

(* a drag that had moved the target has ended, and an ACTIVE event at      *)
(* another position has left the target where it was                       *)
C19_Witness ==
    /\ lastCall.op = "tick"
    /\ Seen(lastCall.events, "PINCH", "left", {"ACTIVE"})
    /\ ~lastCall.pre.ctrl.isRotating
    /\ lastCall.events[1].normalizedPosition # lastCall.pre.ctrl.rotationPrevPos
    /\ Target(renderer) = Target(lastCall.pre.renderer)
    /\ renderer.targetRotX # 0 /\ renderer.targetRotY # 0

(***************************************************************************)
(* The displayed pitch.  buildGroup.rotation.x is kept in hundredths of    *)
(* the angle unit, in a field rotationX beside the renderer's other        *)
(* fields; ROTATION_LERP_FACTOR is 12 hundredths, and the product is       *)
(* rounded to the nearest hundredth.                                       *)
(***************************************************************************)
AngleScale == 100

ROTATION_LERP_PERCENT == 12

lerpToward(current, target) ==
    current + (2 * (target - current) * ROTATION_LERP_PERCENT + 100) \div 200

WithRotationX(r, x) ==
    [f \in DOMAIN r \cup {"rotationX"} |-> IF f = "rotationX" THEN x ELSE r[f]]

updateGroupRotationX(r) ==
    [updateGroupRotation(r) EXCEPT
        !.rotationX = lerpToward(r.rotationX, r.targetRotX * AngleScale)]

PitchDeltas == {-2, -1, 0, 1, 2}

YawDeltas == {-1, 0, 1}

InitTilt ==
    /\ grid = NewGrid
    /\ renderer = WithRotationX(NewRenderer, 0)
    /\ ctrl = NewCtrl
    /\ lastCall = BufferCall("new", NoCell, FALSE, -1)
    /\ lowRun = 0

(* ret records that the sum left the interval and was cut *)
ApplyRotationDeltaCall ==
    \E deltaY \in YawDeltas, deltaX \in PitchDeltas :
        /\ Abs(renderer.targetRotY + deltaY) <= MAX_TILT + MaxYaw
        /\ renderer' = applyRotationDelta(renderer, deltaY, deltaX)
        /\ lastCall' = BufferCall("applyRotationDelta", NoCell,
                                  Abs(renderer.targetRotX + deltaX) > MAX_TILT, -1)
        /\ UNCHANGED <<grid, ctrl, lowRun>>

ResetRotationCall ==
    /\ renderer' = resetRotation(renderer)
    /\ lastCall' = BufferCall("resetRotation", NoCell, FALSE, -1)
    /\ UNCHANGED <<grid, ctrl, lowRun>>

RenderCall ==
    /\ renderer' = updateGroupRotationX(renderer)
    /\ lastCall' = BufferCall("render", NoCell, FALSE, -1)
    /\ UNCHANGED <<grid, ctrl, lowRun>>

NextTilt == ApplyRotationDeltaCall \/ ResetRotationCall \/ RenderCall

SpecTilt == InitTilt /\ [][NextTilt]_vars

(* C20: after any sequence of rotation deltas, resets and frames the       *)
(* target pitch lies in [-MAX_TILT, MAX_TILT], and so does the displayed   *)
(* pitch of the build group, which every frame moves 12% of the way to     *)
(* the target.                                                             *)
C20_PitchClamp ==
    /\ -MAX_TILT <= renderer.targetRotX /\ renderer.targetRotX <= MAX_TILT
    /\ -MAX_TILT * AngleScale <= renderer.rotationX
    /\ renderer.rotationX <= MAX_TILT * AngleScale

(* a delta has just been cut at the limit while the displayed pitch was    *)
(* within a tenth of a unit of the other limit, and the yaw target is      *)
(* beyond the pitch limit                                                  *)
C20_Witness ==
    /\ lastCall.op = "applyRotationDelta" /\ lastCall.ret
    /\ renderer.targetRotX = MAX_TILT
    /\ renderer.rotationX < -MAX_TILT * AngleScale + 10
    /\ Abs(renderer.targetRotY) > MAX_TILT

(***************************************************************************)
(* The Build Frame next to the editing gestures: one event of the right    *)
(* pinch, the left fist or the pinky pinch and one left pinch, in either   *)
(* order, with start, stop, dispose and reset.                             *)
(***************************************************************************)
OrbitPinches == LeftPinches({<<0, 0>>, <<1, 1>>})

EditEvents == RightPinches({Origin}) \cup LeftFists \cup PinkyPinches

BuildFrameLists == EitherOrder(EditEvents, OrbitPinches)

NextBuildFrame ==
    \/ Start({<<>>}, "fast")
    \/ Frame(BuildFrameLists, "fast")
    \/ Reset(FALSE)
    \/ Stop
    \/ Dispose

SpecBuildFrame == Init /\ [][NextBuildFrame]_vars

IsLeftPinch(e) == e.type = "PINCH" /\ e.handedness = "left"

SameTarget(T) == Target(T.renderer) = Target(renderer)

SameCells(T) ==
    /\ T.grid = grid
    /\ T.renderer.boxes = renderer.boxes
    /\ T.renderer.instanceCount = renderer.instanceCount

(* C21: in every reachable state, handling an event other than a left-hand *)
(* PINCH ACTIVE leaves the rotation target (pitch, yaw) as it is, and so   *)
(* do a placement, an erasure, a palette change, stop() and a whole tick   *)
(* without a left-hand PINCH ACTIVE event; handling a left-hand PINCH      *)
(* event, or a tick with left-hand PINCH events only, leaves the occupied  *)
(* set and the render records as they are.                                 *)
C21_BuildFrameCondition ==
    /\ \A e \in EditEvents \cup OrbitPinches :
          /\ ~(IsLeftPinch(e) /\ e.state = "ACTIVE") => SameTarget(handleEvent(Here, e))
          /\ IsLeftPinch(e) => SameCells(handleEvent(Here, e))
    /\ \A c \in RendererCells :
          /\ SameTarget(trySpawnBox(Here, c.gx, c.gy, c.gz, gridToWorld(c)))
          /\ SameTarget(tryEraseBox(Here, c.gx, c.gy, c.gz))
    /\ SameTarget(cyclePalette(Here))
    /\ SameTarget(stop(Here))
    /\ \A events \in BuildFrameLists, hands \in BOOLEAN :
          (hands \/ events = <<>>) =>
              /\ ~Seen(events, "PINCH", "left", {"ACTIVE"})
                    => SameTarget(loop(Here, FALSE, hands, events))
              /\ (\A i \in 1..Len(events) : IsLeftPinch(events[i]))
                    => SameCells(loop(Here, FALSE, hands, events))

(* the view is turned about both axes, a drag is under way, the cell is    *)
(* occupied and the palette has been changed                               *)
C21_Witness ==
    /\ ctrl.isRunning /\ ctrl.isRotating
    /\ renderer.targetRotX # 0 /\ renderer.targetRotY # 0
    /\ count(grid) > 0 /\ renderer.instanceCount > 0
    /\ ctrl.paletteIndex # 0
    /\ Target(handleEvent(Here, Event("PINCH", "ACTIVE", "left", Origin, <<0, 0>>)).renderer)
           # Target(renderer)

(***************************************************************************)
(* Palette cycling (SpecBuildFrame).                                       *)
(***************************************************************************)
PinkyEvents ==
    {Event("PINKY_PINCH", st, h, Origin, <<0, 0>>) : st \in States, h \in {"left", "right"}}

IsPinkyStart(e) == e.type = "PINKY_PINCH" /\ e.state = "STARTED"

(* the list of n copies of e *)
RECURSIVE Repeat(_, _)
Repeat(e, n) == IF n = 0 THEN <<>> ELSE <<e>> \o Repeat(e, n - 1)

PaletteAfter(events) ==
    (ctrl.paletteIndex + Len(SelectSeq(events, IsPinkyStart))) % NumPalettes

(* C22: paletteIndex is in 0..NumPalettes-1; in every reachable state a    *)
(* PINKY_PINCH STARTED event of either hand makes it (paletteIndex + 1)    *)
(* mod NumPalettes and NumPalettes such events in a row bring it back;     *)
(* PINKY_PINCH ACTIVE and ENDED events, the events of the other gestures   *)
(* and reset() leave it as it is; a whole tick advances it by the number   *)
(* of PINKY_PINCH STARTED events it handled.                               *)
C22_PaletteCycling ==
    /\ ctrl.paletteIndex \in 0..(NumPalettes - 1)
    /\ \A e \in PinkyEvents \cup EditEvents \cup OrbitPinches :
          /\ handleEvent(Here, e).ctrl.paletteIndex = PaletteAfter(<<e>>)
          /\ IsPinkyStart(e) =>
                /\ handleEvent(Here, e).ctrl.paletteIndex # ctrl.paletteIndex
                /\ handleEvents(Here, Repeat(e, NumPalettes)).ctrl.paletteIndex
                       = ctrl.paletteIndex
    /\ reset(Here).ctrl.paletteIndex = ctrl.paletteIndex
    /\ \A events \in BuildFrameLists \cup Then(Optional(PinkyPinches), Optional(PinkyPinches)),
          hands \in BOOLEAN :
          (hands \/ events = <<>>) =>
              loop(Here, FALSE, hands, events).ctrl.paletteIndex
                  = IF ctrl.isRunning /\ hands THEN PaletteAfter(events)
                    ELSE ctrl.paletteIndex

(* a frame has left the last palette of the catalog selected, with a cell  *)
(* drawn: the next STARTED wraps to the first                              *)
C22_Witness ==
    /\ lastCall.op = "loop"
    /\ ctrl.paletteIndex = NumPalettes - 1
    /\ count(grid) > 0
    /\ \A e \in PinkyPinches : handleEvent(Here, e).ctrl.paletteIndex = 0

(***************************************************************************)
(* The frame driver.  The controller record gets the field                 *)
(* animationFrameId (0 for null) and, beside it, the window's side of      *)
(* requestAnimationFrame: frameRequests, the ids of the callbacks that are *)
(* scheduled and not cancelled, and nextRequestId, the id the next request *)
(* returns.  loop, start and stop are synchronous methods: the window runs *)
(* a callback, or a caller runs start() or stop(), only between them.      *)
(***************************************************************************)
MaxRequestId == 6

Extend(r, extra) ==
    [f \in DOMAIN r \cup DOMAIN extra |-> IF f \in DOMAIN extra THEN extra[f] ELSE r[f]]

DriverCtrl ==
    Extend(NewCtrl, [animationFrameId |-> 0, frameRequests |-> {}, nextRequestId |-> 1])

(* this.animationFrameId = requestAnimationFrame(this.loop) *)
requestAnimationFrame(S) ==
    [S EXCEPT !.ctrl.animationFrameId = S.ctrl.nextRequestId,
              !.ctrl.frameRequests = S.ctrl.frameRequests \cup {S.ctrl.nextRequestId},
              !.ctrl.nextRequestId = S.ctrl.nextRequestId + 1]

cancelAnimationFrame(S, id) ==
    [S EXCEPT !.ctrl.frameRequests = S.ctrl.frameRequests \ {id}]

(* loop, with its last statement *)
scheduledLoop(S, sample, hands, events) ==
    IF ~S.ctrl.isRunning THEN S
    ELSE requestAnimationFrame(loop(S, sample, hands, events))

(* a start that does not test isRunning *)
startDriverUnguarded(S, sample, hands, events) ==
    scheduledLoop([initialize(S) EXCEPT !.ctrl.isRunning = TRUE], sample, hands, events)

startDriver(S, sample, hands, events) ==
    IF S.ctrl.isRunning THEN S
    ELSE scheduledLoop([initialize(S) EXCEPT !.ctrl.isRunning = TRUE],
                       sample, hands, events)

(* a stop that leaves the scheduled callback in place *)
stopDriverFlagOnly(S) == stop(S)

stopDriver(S) ==
    IF S.ctrl.animationFrameId # 0
    THEN [cancelAnimationFrame(stop(S), S.ctrl.animationFrameId)
             EXCEPT !.ctrl.animationFrameId = 0]
    ELSE stop(S)

disposeDriver(S) == dispose(stopDriver(S))

(* the window runs the scheduled callback id *)
runCallback(S, id, sample, hands, events) ==
    scheduledLoop(cancelAnimationFrame(S, id), sample, hands, events)

(* the history: the call and whether the driver has been stopped (or never *)
(* started) and not started since                                          *)
DriverCall(op, halted) ==
    [op |-> op, cell |-> NoCell, ret |-> FALSE, sample |-> FALSE, halted |-> halted]

InitDriver ==
    /\ grid = NewGrid
    /\ renderer = NullRenderer
    /\ ctrl = DriverCtrl
    /\ lastCall = DriverCall("new", TRUE)
    /\ lowRun = 0

DriverLists == EitherOrder(LeftFists, RightPinches({Origin}))

StartDriver ==
    \E sample \in BOOLEAN, hands \in BOOLEAN, events \in DriverLists :
        /\ ctrl.nextRequestId <= MaxRequestId
        /\ hands \/ events = <<>>
        /\ FrameInBounds("fast", sample)
        /\ Become(startDriver(Here, sample, hands, events))
        /\ lastCall' = DriverCall("start", FALSE)
        /\ UNCHANGED lowRun

StopDriver ==
    /\ Become(stopDriver(Here))
    /\ lastCall' = DriverCall("stop", TRUE)
    /\ UNCHANGED lowRun

DisposeDriver ==
    /\ Become(disposeDriver(Here))
    /\ lastCall' = DriverCall("dispose", TRUE)
    /\ UNCHANGED lowRun

FrameCallback ==
    \E id \in ctrl.frameRequests :
    \E sample \in BOOLEAN, hands \in BOOLEAN, events \in DriverLists :
        /\ ctrl.nextRequestId <= MaxRequestId
        /\ hands \/ events = <<>>
        /\ FrameInBounds("fast", sample)
        /\ Become(runCallback(Here, id, sample, hands, events))
        /\ lastCall' = DriverCall("callback", lastCall.halted)
        /\ UNCHANGED lowRun

NextDriver == StartDriver \/ StopDriver \/ DisposeDriver \/ FrameCallback

SpecDriver == InitDriver /\ [][NextDriver]_vars

(* C23: while the driver is halted (stop() or dispose() has returned, or   *)
(* start() was never called, and start() has not been called since)        *)
(* isRunning is false, no frame callback is scheduled, and a callback that *)
(* ran all the same would return at once: no processHands, no change of    *)
(* the store, the buffer or the controller, no render, no new request.     *)
(* While it is not halted exactly one callback is scheduled, the one       *)
(* animationFrameId names, so one tick runs per frame however start() and  *)
(* stop() were interleaved.                                                *)
C23_StopHaltsDriver ==
    /\ lastCall.halted =>
          /\ ~ctrl.isRunning
          /\ ctrl.frameRequests = {}
          /\ ctrl.animationFrameId = 0
          /\ \A sample \in BOOLEAN, events \in DriverLists :
                scheduledLoop(Here, sample, TRUE, events) = Here
    /\ ~lastCall.halted =>
          /\ ctrl.isRunning
          /\ ctrl.frameRequests = {ctrl.animationFrameId}

(* stop() has just halted a driver that had been stopped and started       *)
(* before and had a drawing under way: the callback it cancelled was the   *)
(* third request at least                                                  *)
C23_Witness ==
    /\ lastCall.op = "stop" /\ lastCall.halted
    /\ ctrl.nextRequestId > 3
    /\ ctrl.isDrawing /\ count(grid) > 0
    /\ ctrl.frameRequests = {}

(***************************************************************************)
(* Drawing and orbiting in one tick: the held fist, then a right pinch at  *)
(* the stroke positions and a left pinch, in either order.                 *)
(***************************************************************************)
DrawOrbitLists == Then(Optional(FistHeld), EitherOrder(StrokePinches, OrbitPinches))

NextDrawOrbit ==
    Start({<<>>}, "fast") \/ Frame(DrawOrbitLists, "fast") \/ Reset(FALSE)

SpecDrawOrbit == Init /\ [][NextDrawOrbit]_vars

(* what a right-hand pinch can change *)
Drawn(T) ==
    [grid |-> T.grid, boxes |-> T.renderer.boxes,
     instanceCount |-> T.renderer.instanceCount,
     lastSpawnWorldPos |-> T.ctrl.lastSpawnWorldPos]

(* C24: in every reachable state, for a right-hand PINCH event r and a     *)
(* left-hand PINCH event l, the gesture processing of a tick gives the     *)
(* same controller, store and renderer (occupied set, records, last spawn  *)
(* position and rotation target among them) whether the tick's events are  *)
(* r then l or l then r; and what r places or erases after l is what it    *)
(* places or erases without l.                                             *)
C24_DrawRotateOrder ==
    \A r \in StrokePinches, l \in OrbitPinches :
        /\ processHands(Here, TRUE, <<r, l>>) = processHands(Here, TRUE, <<l, r>>)
        /\ Drawn(handleEvents(Here, <<l, r>>)) = Drawn(handleEvent(Here, r))

(* the displayed group is turned and a drag is under way: one tick both    *)
(* places a cell, at the turned position, and moves the rotation target    *)
C24_Witness ==
    /\ lastCall.op = "loop"
    /\ renderer.groupRotated /\ ctrl.isRotating /\ ~ctrl.eraseMode
    /\ \E r \in StrokePinches, l \in OrbitPinches :
          /\ r.local # r.position
          /\ handleEvents(Here, <<l, r>>).grid # grid
          /\ Target(handleEvents(Here, <<l, r>>).renderer) # Target(renderer)

(***************************************************************************)
(* The recolor pass.  updateAllColors reads the store's Y range and gives  *)
(* every record the interpolation parameter t; t is kept as the fraction   *)
(* num / den.  The pass is the last statement of addBox, removeBox and     *)
(* setPalette; the controller has changed the store before it calls        *)
(* addBox or removeBox.                                                    *)
(***************************************************************************)
Shade(gy, range) ==
    IF range.maxY - range.minY = 0 THEN [num |-> 1, den |-> 2]
    ELSE [num |-> gy - range.minY, den |-> range.maxY - range.minY]

updateAllColors(r, g) == [i \in 1..Len(r.boxes) |-> Shade(r.boxes[i].gy, getYRange(g))]

(* a placement whose recolor pass runs before the store has the new cell *)
colorsAfterSpawnStale(S, c) ==
    updateAllColors(addBox(S.renderer, c.gx, c.gy, c.gz), S.grid)

(* the pass of the addBox of trySpawnBox *)
colorsAfterSpawn(S, c) ==
    updateAllColors(addBox(S.renderer, c.gx, c.gy, c.gz), add(S.grid, c.gx, c.gy, c.gz).grid)

(* the pass of the removeBox of tryEraseBox *)
colorsAfterErase(S, c) ==
    updateAllColors(removeBox(S.renderer, c.gx, c.gy, c.gz).renderer,
                    remove(S.grid, c.gx, c.gy, c.gz).grid)

(* the pass of the setPalette of cyclePalette *)
colorsAfterPalette(S) == updateAllColors(cyclePalette(S).renderer, S.grid)

(* t is in [0, 1], with a divisor that is not zero; 1/2 for every record   *)
(* when the range is degenerate                                            *)
WellShaded(colors, range) ==
    \A i \in DOMAIN colors :
        /\ colors[i].den > 0
        /\ 0 <= colors[i].num /\ colors[i].num <= colors[i].den
        /\ range.maxY = range.minY => colors[i] = [num |-> 1, den |-> 2]

WithinRange(r, range) ==
    \A i \in 1..Len(r.boxes) : range.minY <= r.boxes[i].gy /\ r.boxes[i].gy <= range.maxY

(* C25: in every reachable state with a renderer, the recolor pass of a    *)
(* placement that succeeds, of an erasure that succeeds and of a palette   *)
(* change finds every record's gy within the store's Y range, computes t   *)
(* in [0, 1] with a divisor that is not zero, and gives t = 1/2 to every   *)
(* record when maxY = minY.                                                *)
C25_RecolorWellDefined ==
    renderer.created =>
        /\ \A c \in RendererCells :
              /\ (~ctrl.performanceWarning /\ add(grid, c.gx, c.gy, c.gz).ret) =>
                    /\ WellShaded(colorsAfterSpawn(Here, c),
                                  getYRange(trySpawnBox(Here, c.gx, c.gy, c.gz, Origin).grid))
                    /\ WithinRange(trySpawnBox(Here, c.gx, c.gy, c.gz, Origin).renderer,
                                   getYRange(trySpawnBox(Here, c.gx, c.gy, c.gz, Origin).grid))
              /\ remove(grid, c.gx, c.gy, c.gz).ret =>
                    /\ WellShaded(colorsAfterErase(Here, c),
                                  getYRange(tryEraseBox(Here, c.gx, c.gy, c.gz).grid))
                    /\ WithinRange(tryEraseBox(Here, c.gx, c.gy, c.gz).renderer,
                                   getYRange(tryEraseBox(Here, c.gx, c.gy, c.gz).grid))
        /\ WellShaded(colorsAfterPalette(Here), getYRange(grid))
        /\ WithinRange(renderer, getYRange(grid))

(* records at three heights: the pass gives t = 0, 1/2 and 1 over the      *)
(* divisor 2, and the erasure of the two outer cells leaves the degenerate *)
(* range                                                                   *)
C25_Witness ==
    /\ lastCall.op = "loop" /\ renderer.created
    /\ getYRange(grid) = [minY |-> -1, maxY |-> 1]
    /\ {updateAllColors(renderer, grid)[i] : i \in 1..Len(renderer.boxes)}
           = {[num |-> 0, den |-> 2], [num |-> 1, den |-> 2], [num |-> 2, den |-> 2]}
    /\ getYRange(tryEraseBox(tryEraseBox(Here, 0, 1, 0), 0, -1, 0).grid)
           = [minY |-> 0, maxY |-> 0]

(***************************************************************************)
(* Grid snapping on its own.  Positions are taken in quarters of a cell,   *)
(* so that a position can lie strictly nearer to one centre than to the    *)
(* next; Math.round rounds a half up, towards +Infinity.                   *)
(***************************************************************************)
QuarterCell == 4

MaxCoordinate == 6

(* a snap that cuts the fraction off *)
floorRatio(x, size) == x \div size

(* Math.round(x / size) *)
roundRatio(x, size) == (2 * x + size) \div (2 * size)

worldToGridQuarters(worldPos) ==
    Cell(roundRatio(worldPos[1], QuarterCell), roundRatio(worldPos[2], QuarterCell),
         roundRatio(worldPos[3], QuarterCell))

gridToWorldQuarters(pos) == <<pos.gx * QuarterCell, pos.gy * QuarterCell, pos.gz * QuarterCell>>

Coordinates == -MaxCoordinate..MaxCoordinate

Positions == Coordinates \X Coordinates \X Coordinates

(* the cells whose centres lie among the positions, and one ring more *)
CellIndices == (-(MaxCoordinate \div QuarterCell) - 2)..((MaxCoordinate \div QuarterCell) + 2)

SnapCells == {Cell(gx, gy, gz) : gx \in CellIndices, gy \in {-1, 0, 1}, gz \in {0}}

SnapCall(op, position, cell) == [op |-> op, position |-> position, cell |-> cell]

InitSnap ==
    /\ grid = NewGrid
    /\ renderer = NullRenderer
    /\ ctrl = NewCtrl
    /\ lastCall = SnapCall("new", Origin, NoCell)
    /\ lowRun = 0

WorldToGridCall ==
    \E position \in Positions :
        /\ lastCall' = SnapCall("worldToGrid", position, worldToGridQuarters(position))
        /\ UNCHANGED <<grid, renderer, ctrl, lowRun>>

GridToWorldCall ==
    \E c \in SnapCells :
        /\ lastCall' = SnapCall("gridToWorld", gridToWorldQuarters(c), c)
        /\ UNCHANGED <<grid, renderer, ctrl, lowRun>>

NextSnap == WorldToGridCall \/ GridToWorldCall

SpecSnap == InitSnap /\ [][NextSnap]_vars

(* C26: the cell of a cell's centre is that cell; the centre of the cell   *)
(* of a position p is, on each axis, at least as near to p as the centre   *)
(* of any other cell, and never farther than half a cell; the cell of that *)
(* centre is the cell of p again.  The same holds for the snap in the      *)
(* half-cell units of the controller.                                      *)
C26_SnapRoundTrip ==
    /\ lastCall.op = "gridToWorld" =>
          /\ worldToGridQuarters(lastCall.position) = lastCall.cell
          /\ worldToGrid(gridToWorld(lastCall.cell)) = lastCall.cell
    /\ lastCall.op = "worldToGrid" =>
          LET centre == gridToWorldQuarters(lastCall.cell) IN
          /\ \A axis \in 1..3 :
                /\ 2 * Abs(lastCall.position[axis] - centre[axis]) <= QuarterCell
                /\ \A k \in CellIndices :
                      Abs(lastCall.position[axis] - centre[axis])
                          <= Abs(lastCall.position[axis] - k * QuarterCell)
          /\ worldToGridQuarters(centre) = lastCall.cell
          /\ gridToWorldQuarters(worldToGridQuarters(centre)) = centre
          /\ worldToGrid(gridToWorld(worldToGrid(lastCall.position)))
                 = worldToGrid(lastCall.position)

(* a position off the centres: three quarters of a cell along x, which is  *)
(* nearer to the next cell, and half a cell below the origin along y,      *)
(* which rounds up to the cell of the origin                               *)
C26_Witness ==
    /\ lastCall.op = "worldToGrid"
    /\ lastCall.position = <<3, -2, 0>>
    /\ lastCall.cell = Cell(1, 0, 0)
    /\ gridToWorldQuarters(lastCall.cell) # lastCall.position

(***************************************************************************)
(* The depth step of the right-hand pinch.  The controller record gets     *)
(* the fields smoothedHandScale and referenceHandScale.  Hand scales are   *)
(* integers in a unit fine enough for MaxBlends exact blends of            *)
(* 0.3 * raw + 0.7 * previous after a scale was set; a depth is the        *)
(* fraction num / den in world units.  landmarks: whether the tracker      *)
(* gave a landmark list for the right hand, and the scale computeHandScale *)
(* finds in it (0 without the wrist or the middle knuckle).                *)
(***************************************************************************)
MaxBlends == 2

DEPTH_SCALE_SENSITIVITY == 12

DEPTH_SMOOTHING_TENTHS == 3

ScaleUnit == 10 ^ MaxBlends

Fraction(num, den) == [num |-> num, den |-> den]

SameFraction(a, b) == a.num * b.den = b.num * a.den

DepthCtrl == Extend(NewCtrl, [smoothedHandScale |-> 0, referenceHandScale |-> 0])

NoLandmarks == [present |-> FALSE, scale |-> 0]

Landmarks == {NoLandmarks} \cup {[present |-> TRUE, scale |-> k * ScaleUnit] : k \in {0, 2, 3, 4}}

computeHandScale(landmarks) == landmarks.scale

(* landmarks are there and rawScale > 0 *)
Measured(landmarks) == landmarks.present /\ computeHandScale(landmarks) > 0

blendScale(rawScale, previous) ==
    (DEPTH_SMOOTHING_TENTHS * rawScale + (10 - DEPTH_SMOOTHING_TENTHS) * previous) \div 10

smoothScale(S, rawScale, state) ==
    IF S.ctrl.smoothedHandScale = 0 \/ state = "STARTED" THEN rawScale
    ELSE blendScale(rawScale, S.ctrl.smoothedHandScale)

captureReference(S, state) ==
    IF state = "STARTED"
    THEN [S EXCEPT !.ctrl.referenceHandScale = S.ctrl.smoothedHandScale]
    ELSE S

(* a depth step whose reference follows the smoothed scale in every frame *)
depthStateFollowing(S, landmarks, state) ==
    IF ~Measured(landmarks) THEN S
    ELSE captureReference(
             [S EXCEPT !.ctrl.smoothedHandScale =
                           smoothScale(S, computeHandScale(landmarks), state)],
             "STARTED")

(* the scales computeDepthCorrectedPosition leaves *)
depthState(S, landmarks, state) ==
    IF ~Measured(landmarks) THEN S
    ELSE captureReference(
             [S EXCEPT !.ctrl.smoothedHandScale =
                           smoothScale(S, computeHandScale(landmarks), state)],
             state)

(* a depth step that returns depth 0 when it cannot measure the hand *)
depthOfZeroFallback(T, position, landmarks, state) ==
    IF ~Measured(landmarks) \/ state = "STARTED" THEN Fraction(0, 1)
    ELSE IF T.ctrl.referenceHandScale > 0
         THEN Fraction((T.ctrl.smoothedHandScale - T.ctrl.referenceHandScale)
                           * DEPTH_SCALE_SENSITIVITY,
                       T.ctrl.referenceHandScale)
         ELSE Fraction(position[3], 1)

(* pos.z of the position it returns; T: the scales it leaves *)
depthOf(T, position, landmarks, state) ==
    IF ~Measured(landmarks) THEN Fraction(position[3], 1)
    ELSE IF state = "STARTED" THEN Fraction(0, 1)
    ELSE IF T.ctrl.referenceHandScale > 0
         THEN Fraction((T.ctrl.smoothedHandScale - T.ctrl.referenceHandScale)
                           * DEPTH_SCALE_SENSITIVITY,
                       T.ctrl.referenceHandScale)
         ELSE Fraction(position[3], 1)

computeDepthCorrectedPosition(S, position, landmarks, state) ==
    [S |-> depthState(S, landmarks, state),
     x |-> position[1], y |-> position[2],
     z |-> depthOf(depthState(S, landmarks, state), position, landmarks, state)]

(* smoothedPinchPos: the depth-corrected position itself on STARTED, the   *)
(* time-smoothed position, an input of the frame, otherwise                *)
smoothedPinchPos(target, state, smoothed) ==
    IF state = "STARTED" THEN <<target.x, target.y, target.z.num \div target.z.den>>
    ELSE smoothed

(* the right-hand PINCH branch of the event loop *)
rightPinchFrame(S, e, landmarks, smoothed) ==
    handleRightPinch(depthState(S, landmarks, e.state), e.state,
                     smoothedPinchPos(computeDepthCorrectedPosition(
                                          S, e.position, landmarks, e.state),
                                      e.state, smoothed),
                     e.local)

resetDepth(S) ==
    [reset(S) EXCEPT !.ctrl.referenceHandScale = 0, !.ctrl.smoothedHandScale = 0]

(* anchored: the stroke began with a STARTED whose scale was measured, and *)
(* neither ENDED nor reset() has come since                                *)
AnchoredAfter(state, landmarks) ==
    IF state = "STARTED" THEN Measured(landmarks)
    ELSE IF state = "ENDED" THEN FALSE
    ELSE lastCall.anchored

DepthCall(op, state, position, landmarks, z, anchored) ==
    [op |-> op, state |-> state, position |-> position, landmarks |-> landmarks,
     z |-> z, anchored |-> anchored,
     pre |-> [smoothedHandScale |-> ctrl.smoothedHandScale,
              referenceHandScale |-> ctrl.referenceHandScale,
              anchored |-> lastCall.anchored,
              isDrawing |-> ctrl.isDrawing, count |-> count(grid)]]

InitDepth ==
    /\ grid = NewGrid
    /\ renderer = NewRenderer
    /\ ctrl = DepthCtrl
    /\ lastCall = [op |-> "new", state |-> "ENDED", position |-> Origin,
                   landmarks |-> NoLandmarks, z |-> Fraction(0, 1), anchored |-> FALSE,
                   pre |-> [smoothedHandScale |-> 0, referenceHandScale |-> 0,
                            anchored |-> FALSE, isDrawing |-> FALSE, count |-> 0]]
    /\ lowRun = 0

DepthPinches == RightPinches({<<0, 0, 0>>, <<0, 0, 2>>})

(* the blend of this frame is exact in ScaleUnit *)
ExactBlend(landmarks, state) ==
    (Measured(landmarks) /\ state # "STARTED" /\ ctrl.smoothedHandScale # 0) =>
        (DEPTH_SMOOTHING_TENTHS * computeHandScale(landmarks)
             + (10 - DEPTH_SMOOTHING_TENTHS) * ctrl.smoothedHandScale) % 10 = 0

PinchFrame ==
    \E e \in DepthPinches, landmarks \in Landmarks :
        /\ ExactBlend(landmarks, e.state)
        /\ Become(rightPinchFrame(Here, e, landmarks, e.position))
        /\ lastCall' = DepthCall("pinch", e.state, e.position, landmarks,
                                 computeDepthCorrectedPosition(
                                     Here, e.position, landmarks, e.state).z,
                                 AnchoredAfter(e.state, landmarks))
        /\ UNCHANGED lowRun

ResetDepth ==
    /\ Become(resetDepth(Here))
    /\ lastCall' = DepthCall("reset", "ENDED", Origin, NoLandmarks, Fraction(0, 1), FALSE)
    /\ UNCHANGED lowRun

NextDepth == PinchFrame \/ ResetDepth

SpecDepth == InitDepth /\ [][NextDepth]_vars

(* C27: a right-hand PINCH STARTED with a measured scale leaves            *)
(* smoothedHandScale = referenceHandScale = the raw scale and returns      *)
(* z = 0; an ACTIVE frame with a measured scale in the stroke such a       *)
(* STARTED began leaves referenceHandScale as it was, makes                *)
(* smoothedHandScale 0.3 * raw + 0.7 * previous, and returns               *)
(* z = ((smoothed - reference) / reference) * 12; reference 0.2 and        *)
(* smoothed 0.24 give z = 2.4.                                             *)
C27_DepthReference ==
    /\ (lastCall.op = "pinch" /\ lastCall.state = "STARTED" /\ Measured(lastCall.landmarks)) =>
          /\ ctrl.smoothedHandScale = computeHandScale(lastCall.landmarks)
          /\ ctrl.referenceHandScale = computeHandScale(lastCall.landmarks)
          /\ SameFraction(lastCall.z, Fraction(0, 1))
    /\ (/\ lastCall.op = "pinch" /\ lastCall.state = "ACTIVE"
        /\ Measured(lastCall.landmarks) /\ lastCall.pre.anchored) =>
          /\ ctrl.referenceHandScale = lastCall.pre.referenceHandScale
          /\ ctrl.referenceHandScale > 0
          /\ 10 * ctrl.smoothedHandScale
                 = 3 * computeHandScale(lastCall.landmarks)
                       + 7 * lastCall.pre.smoothedHandScale
          /\ lastCall.z.den = ctrl.referenceHandScale
          /\ lastCall.z.num = (ctrl.smoothedHandScale - ctrl.referenceHandScale) * 12
    /\ SameFraction(
           depthOf([ctrl |-> [smoothedHandScale |-> 24, referenceHandScale |-> 20]],
                   Origin, [present |-> TRUE, scale |-> 24], "ACTIVE"),
           Fraction(24, 10))

(* the second ACTIVE frame of an anchored stroke: the smoothed scale has   *)
(* left the reference and the depth is not 0                               *)
C27_Witness ==
    /\ lastCall.op = "pinch" /\ lastCall.state = "ACTIVE"
    /\ Measured(lastCall.landmarks) /\ lastCall.pre.anchored
    /\ lastCall.pre.smoothedHandScale # lastCall.pre.referenceHandScale
    /\ ctrl.smoothedHandScale # lastCall.pre.smoothedHandScale
    /\ lastCall.z.num # 0

(* C28: in every reachable state, for a right-hand PINCH event in a frame  *)
(* without a landmark list for the right hand, or with a hand scale that   *)
(* is not positive, the depth step returns the pinch's position as it is   *)
(* and leaves smoothedHandScale and referenceHandScale as they are, and    *)
(* the event is handled as handleRightPinch handles it at that position;   *)
(* the frame that was just taken did so.                                   *)
C28_LandmarkFallback ==
    /\ \A e \in DepthPinches, landmarks \in Landmarks :
          ~Measured(landmarks) =>
              /\ computeDepthCorrectedPosition(Here, e.position, landmarks, e.state)
                     = [S |-> Here, x |-> e.position[1], y |-> e.position[2],
                        z |-> Fraction(e.position[3], 1)]
              /\ rightPinchFrame(Here, e, landmarks, e.position)
                     = handleRightPinch(Here, e.state, e.position, e.local)
    /\ (lastCall.op = "pinch" /\ ~Measured(lastCall.landmarks)) =>
          /\ lastCall.z = Fraction(lastCall.position[3], 1)
          /\ ctrl.smoothedHandScale = lastCall.pre.smoothedHandScale
          /\ ctrl.referenceHandScale = lastCall.pre.referenceHandScale
          /\ lastCall.state = "STARTED" => (ctrl.isDrawing /\ renderer.ghostVisible)
          /\ lastCall.state = "ENDED" => ~ctrl.isDrawing

(* a STARTED whose landmark list gave no scale: the scales of the stroke   *)
(* before are still there, and the cell at the raw depth was placed        *)
C28_Witness ==
    /\ lastCall.op = "pinch" /\ lastCall.state = "STARTED"
    /\ lastCall.landmarks.present /\ ~Measured(lastCall.landmarks)
    /\ lastCall.position[3] # 0 /\ lastCall.z.num = lastCall.position[3]
    /\ ctrl.smoothedHandScale # 0
    /\ ctrl.smoothedHandScale # ctrl.referenceHandScale
    /\ ctrl.isDrawing /\ count(grid) = lastCall.pre.count + 1

(***************************************************************************)
(* VisualRecognitionController: the tracking of detections.  A detection   *)
(* is a record [className, bbox]; a track is a detection with an age.      *)
(* Boxes are integer rectangles; an IoU is compared as a fraction.  The    *)
(* confidence of a detection plays no part in the tracking and is left     *)
(* out.                                                                    *)
(***************************************************************************)
MaxAge == 3

Box(x, y, width, height) == [x |-> x, y |-> y, width |-> width, height |-> height]

Detection(className, bbox) == [className |-> className, bbox |-> bbox]

Track(className, bbox, age) == [className |-> className, bbox |-> bbox, age |-> age]

Min2(a, b) == IF a < b THEN a ELSE b

Max2(a, b) == IF a > b THEN a ELSE b

interArea(box1, box2) ==
    Max2(0, Min2(box1.x + box1.width, box2.x + box2.width) - Max2(box1.x, box2.x))
        * Max2(0, Min2(box1.y + box1.height, box2.y + box2.height) - Max2(box1.y, box2.y))

(* interArea / (box1Area + box2Area - interArea), as a fraction *)
calculateIoU(box1, box2) ==
    Fraction(interArea(box1, box2),
             box1.width * box1.height + box2.width * box2.height - interArea(box1, box2))

(* a > b for fractions with positive divisors *)
Greater(a, b) == a.num * b.den > b.num * a.den

(* iou > 0.3 *)
OverThreshold(iou) == Greater(iou, Fraction(3, 10))

(* the inner loop: the index of the best match of track among unmatchedNew *)
(* from position i on, given the best so far; 0 for -1                     *)
RECURSIVE bestMatch(_, _, _, _, _)
bestMatch(track, unmatchedNew, i, bestMatchIdx, bestIoU) ==
    IF i > Len(unmatchedNew) THEN bestMatchIdx
    ELSE IF /\ unmatchedNew[i].className = track.className
            /\ Greater(calculateIoU(track.bbox, unmatchedNew[i].bbox), bestIoU)
            /\ OverThreshold(calculateIoU(track.bbox, unmatchedNew[i].bbox))
         THEN bestMatch(track, unmatchedNew, i + 1, i,
                        calculateIoU(track.bbox, unmatchedNew[i].bbox))
         ELSE bestMatch(track, unmatchedNew, i + 1, bestMatchIdx, bestIoU)

bestMatchIdxOf(track, unmatchedNew) ==
    bestMatch(track, unmatchedNew, 1, 0, Fraction(0, 1))

(* a * (1 - alpha) + b * alpha with alpha = 0.5 *)
ema(a, b) == (a + b) \div 2

smoothed(track, match) ==
    Track(match.className,
          Box(ema(track.bbox.x, match.bbox.x), ema(track.bbox.y, match.bbox.y),
              ema(track.bbox.width, match.bbox.width),
              ema(track.bbox.height, match.bbox.height)),
          0)

(* a tracker that never lets a track go *)
agedForever(track) == <<[track EXCEPT !.age = track.age + 1]>>

(* what an unmatched track leaves in updatedTracks *)
aged(track) ==
    IF track.age < MaxAge THEN <<[track EXCEPT !.age = track.age + 1]>> ELSE <<>>

registered(unmatchedNew) ==
    [i \in 1..Len(unmatchedNew) |->
        Track(unmatchedNew[i].className, unmatchedNew[i].bbox, 0)]

(* the loop over the tracks, from the tracks that are left *)
RECURSIVE trackLoop(_, _, _)
trackLoop(tracks, unmatchedNew, updatedTracks) ==
    IF tracks = <<>> THEN updatedTracks \o registered(unmatchedNew)
    ELSE IF bestMatchIdxOf(Head(tracks), unmatchedNew) # 0
         THEN trackLoop(Tail(tracks),
                        splice(unmatchedNew, bestMatchIdxOf(Head(tracks), unmatchedNew)),
                        Append(updatedTracks,
                               smoothed(Head(tracks),
                                        unmatchedNew[bestMatchIdxOf(Head(tracks),
                                                                    unmatchedNew)])))
         ELSE trackLoop(Tail(tracks), unmatchedNew, updatedTracks \o aged(Head(tracks)))

updateTracking(trackedDetections, newDetections) ==
    trackLoop(trackedDetections, newDetections, <<>>)

(***************************************************************************)
(* VisualRecognitionController: the frame loop and the inference it        *)
(* dispatches.  The record V holds the controller's fields and, beside     *)
(* them, now, the timestamp of the last frame, and pending, the number of  *)
(* detect() promises that have not settled.  Times are in units of 50 ms.  *)
(* The handlers of one promise (then, catch, finally) run in one go when   *)
(* it settles; the telemetry fields are left out.                          *)
(***************************************************************************)
inferenceIntervalMs == 2

MaxTime == 6

NewVision ==
    [running |-> FALSE, isInferring |-> FALSE, lastInferenceTime |-> 0,
     latestDetections |-> <<>>, trackedDetections |-> <<>>,
     now |-> 0, pending |-> 0]

visionStart(V) == IF V.running THEN V ELSE [V EXCEPT !.running = TRUE]

visionStop(V) == [V EXCEPT !.running = FALSE]

visionReset(V) == [V EXCEPT !.latestDetections = <<>>, !.trackedDetections = <<>>]

(* ready: detectionService.isReady() and the video has current data *)
dispatches(V, timestamp, ready) ==
    /\ V.running
    /\ timestamp - V.lastInferenceTime >= inferenceIntervalMs
    /\ ~V.isInferring
    /\ ready

update(V, timestamp, ready) ==
    IF ~V.running THEN V
    ELSE IF dispatches(V, timestamp, ready)
         THEN [V EXCEPT !.now = timestamp, !.isInferring = TRUE,
                        !.lastInferenceTime = timestamp, !.pending = V.pending + 1]
         ELSE [V EXCEPT !.now = timestamp]

(* the then handler *)
resolved(V, detections) ==
    [V EXCEPT !.latestDetections = detections,
              !.trackedDetections = updateTracking(V.trackedDetections, detections)]

(* a settlement whose flag is cleared by the then handler only *)
settleThenOnly(V, fulfilled, detections) ==
    IF fulfilled
    THEN [resolved(V, detections) EXCEPT !.isInferring = FALSE, !.pending = V.pending - 1]
    ELSE [V EXCEPT !.pending = V.pending - 1]

(* the promise settles: then on fulfilment, catch on rejection, finally *)
settle(V, fulfilled, detections) ==
    [(IF fulfilled THEN resolved(V, detections) ELSE V)
        EXCEPT !.isInferring = FALSE, !.pending = V.pending - 1]

CatAt(x) == Detection("cat", Box(x, 0, 16, 16))

DogAt(x) == Detection("dog", Box(x, 0, 16, 16))

DetectionSet == {CatAt(0), CatAt(4), DogAt(0)}

DetectionLists ==
    {<<>>} \cup {<<d>> : d \in DetectionSet}
        \cup {pair \in DetectionSet \X DetectionSet : pair[1] # pair[2]}

Compatible(track, det) ==
    det.className = track.className /\ OverThreshold(calculateIoU(track.bbox, det.bbox))

(* the averages of this cycle are exact at the resolution of the boxes *)
ExactEma(tracks, detections) ==
    \A i \in 1..Len(tracks), j \in 1..Len(detections) :
        Compatible(tracks[i], detections[j]) =>
            (tracks[i].bbox.x + detections[j].bbox.x) % 2 = 0

(* the history: the call, the frame's timestamp, whether it dispatched,    *)
(* whether the promise was fulfilled, whether the last promise that        *)
(* settled was rejected, and the fields the call read                      *)
VisionCall(op, timestamp, dispatched, fulfilled, afterRejection) ==
    [op |-> op, timestamp |-> timestamp, dispatched |-> dispatched,
     fulfilled |-> fulfilled, afterRejection |-> afterRejection,
     pre |-> [isInferring |-> ctrl.isInferring,
              lastInferenceTime |-> ctrl.lastInferenceTime,
              pending |-> ctrl.pending]]

InitVision ==
    /\ grid = NewGrid
    /\ renderer = NullRenderer
    /\ ctrl = NewVision
    /\ lastCall = [op |-> "new", timestamp |-> 0, dispatched |-> FALSE,
                   fulfilled |-> FALSE, afterRejection |-> FALSE,
                   pre |-> [isInferring |-> FALSE, lastInferenceTime |-> 0, pending |-> 0]]
    /\ lowRun = 0

VisionStart ==
    /\ ctrl' = visionStart(ctrl)
    /\ lastCall' = VisionCall("start", ctrl.now, FALSE, FALSE, lastCall.afterRejection)
    /\ UNCHANGED <<grid, renderer, lowRun>>

VisionStop ==
    /\ ctrl' = visionStop(ctrl)
    /\ lastCall' = VisionCall("stop", ctrl.now, FALSE, FALSE, lastCall.afterRejection)
    /\ UNCHANGED <<grid, renderer, lowRun>>

VisionReset ==
    /\ ctrl' = visionReset(ctrl)
    /\ lastCall' = VisionCall("reset", ctrl.now, FALSE, FALSE, lastCall.afterRejection)
    /\ UNCHANGED <<grid, renderer, lowRun>>

(* the window runs the frame callback of the running controller *)
VisionUpdate ==
    \E dt \in {1, 2}, ready \in BOOLEAN :
        /\ ctrl.running
        /\ ctrl.now + dt <= MaxTime
        /\ ctrl' = update(ctrl, ctrl.now + dt, ready)
        /\ lastCall' = VisionCall("update", ctrl.now + dt,
                                  dispatches(ctrl, ctrl.now + dt, ready), FALSE,
                                  lastCall.afterRejection)
        /\ UNCHANGED <<grid, renderer, lowRun>>

VisionSettle ==
    \E fulfilled \in BOOLEAN, detections \in DetectionLists :
        /\ ctrl.pending > 0
        /\ fulfilled \/ detections = <<>>
        /\ ExactEma(ctrl.trackedDetections, detections)
        /\ ctrl' = settle(ctrl, fulfilled, detections)
        /\ lastCall' = VisionCall("settle", ctrl.now, FALSE, fulfilled, ~fulfilled)
        /\ UNCHANGED <<grid, renderer, lowRun>>

NextVision == VisionStart \/ VisionStop \/ VisionReset \/ VisionUpdate \/ VisionSettle

SpecVision == InitVision /\ [][NextVision]_vars

(* C29: at most one detect() promise is unsettled, and isInferring is true *)
(* exactly while one is; a frame dispatches only when isInferring was      *)
(* false and inferenceIntervalMs or more had passed since the dispatch     *)
(* before; after a promise has settled, fulfilled or rejected, isInferring *)
(* is false, and a frame of the running controller that comes when the     *)
(* interval has passed and the service is ready dispatches again.          *)
C29_SingleFlight ==
    /\ ctrl.pending <= 1
    /\ ctrl.isInferring <=> ctrl.pending = 1
    /\ (lastCall.op = "update" /\ lastCall.dispatched) =>
          /\ ~lastCall.pre.isInferring /\ lastCall.pre.pending = 0
          /\ lastCall.timestamp - lastCall.pre.lastInferenceTime >= inferenceIntervalMs
          /\ ctrl.isInferring /\ ctrl.lastInferenceTime = lastCall.timestamp
    /\ lastCall.op = "settle" =>
          /\ ~ctrl.isInferring
          /\ ctrl.running =>
                update(ctrl, Max2(ctrl.now, ctrl.lastInferenceTime + inferenceIntervalMs),
                       TRUE).isInferring

(* a frame has dispatched an inference after the one before it was rejected *)
C29_Witness ==
    /\ lastCall.op = "update" /\ lastCall.dispatched
    /\ lastCall.afterRejection
    /\ ctrl.pending = 1

(***************************************************************************)
(* The tracking on its own: inference cycles in any number, each with one  *)
(* of the detection lists, and reset().                                    *)
(***************************************************************************)
TrackingCall(op) ==
    [op |-> op, timestamp |-> 0, dispatched |-> FALSE, fulfilled |-> op = "updateTracking",
     afterRejection |-> FALSE,
     pre |-> [isInferring |-> FALSE, lastInferenceTime |-> 0, pending |-> 0]]

UpdateTrackingCall ==
    \E detections \in DetectionLists :
        /\ ExactEma(ctrl.trackedDetections, detections)
        /\ ctrl' = resolved(ctrl, detections)
        /\ lastCall' = TrackingCall("updateTracking")
        /\ UNCHANGED <<grid, renderer, lowRun>>

TrackingReset ==
    /\ ctrl' = visionReset(ctrl)
    /\ lastCall' = TrackingCall("reset")
    /\ UNCHANGED <<grid, renderer, lowRun>>

NextTracking == UpdateTrackingCall \/ TrackingReset

SpecTracking == InitVision /\ [][NextTracking]_vars

(* k cycles in a row without any detection *)
RECURSIVE Misses(_, _)
Misses(tracks, k) ==
    IF k = 0 THEN tracks ELSE Misses(updateTracking(tracks, <<>>), k - 1)

Unmatchable(track, detections) ==
    \A j \in 1..Len(detections) : ~Compatible(track, detections[j])

Among(track, tracks) == \E j \in 1..Len(tracks) : tracks[j] = track

OlderBy(track, k) == [track EXCEPT !.age = track.age + k]

(* the tracks that are still young enough to outlive k misses *)
Outliving(tracks, k) ==
    LET young(t) == t.age + k <= MaxAge IN SelectSeq(tracks, young)

(* what one cycle with the list detections must leave of tracks *)
CycleAsClaimed(tracks, detections) ==
    /\ \A j \in 1..Len(updateTracking(tracks, detections)) :
          updateTracking(tracks, detections)[j].age \in 0..MaxAge
    /\ \A i \in 1..Len(tracks) :
          (Unmatchable(tracks[i], detections) /\ tracks[i].age < MaxAge) =>
              Among(OlderBy(tracks[i], 1), updateTracking(tracks, detections))
    /\ (tracks # <<>> /\ ~Unmatchable(tracks[1], detections)) =>
          /\ updateTracking(tracks, detections)[1].age = 0
          /\ updateTracking(tracks, detections)[1].className = tracks[1].className
    /\ \A j \in 1..Len(detections) :
          (\A i \in 1..Len(tracks) : ~Compatible(tracks[i], detections[j])) =>
              Among(Track(detections[j].className, detections[j].bbox, 0),
                    updateTracking(tracks, detections))

(* C30: ages stay in 0..3; in every reachable state, a cycle leaves a      *)
(* track that no detection of the cycle can match, and whose age is below  *)
(* 3, with its age raised by one, gives age 0 to the track that is matched *)
(* and makes a track of age 0 of every detection that matches no track;    *)
(* over k cycles without detections exactly the tracks of age at most      *)
(* 3 - k are left, each k older, so that a track that was just matched is  *)
(* still there after 3 misses in a row and gone after the 4th.             *)
C30_TrackAgeing ==
    /\ \A i \in 1..Len(ctrl.trackedDetections) :
          ctrl.trackedDetections[i].age \in 0..MaxAge
    /\ \A detections \in DetectionLists :
          ExactEma(ctrl.trackedDetections, detections) =>
              CycleAsClaimed(ctrl.trackedDetections, detections)
    /\ \A k \in 1..(MaxAge + 1) :
          /\ Len(Misses(ctrl.trackedDetections, k))
                 = Len(Outliving(ctrl.trackedDetections, k))
          /\ \A j \in 1..Len(Outliving(ctrl.trackedDetections, k)) :
                Misses(ctrl.trackedDetections, k)[j]
                    = OlderBy(Outliving(ctrl.trackedDetections, k)[j], k)
    /\ Misses(ctrl.trackedDetections, MaxAge + 1) = <<>>

(* a cycle has left a track that was missed three times in a row beside a  *)
(* track it has just matched and moved half way to the detection           *)
C30_Witness ==
    /\ lastCall.op = "updateTracking"
    /\ \E i, j \in 1..Len(ctrl.trackedDetections) :
          /\ ctrl.trackedDetections[i].age = MaxAge
          /\ ctrl.trackedDetections[j].age = 0
          /\ ctrl.trackedDetections[j].bbox.x = 2
    /\ Len(updateTracking(ctrl.trackedDetections, <<>>)) < Len(ctrl.trackedDetections)

(***************************************************************************)
(* The instanced mesh and the edge outlines of the renderer.  matrix[s] is *)
(* the translation stored in slot s (NoMatrix before the first write),     *)
(* edges the positions of edgeGroup.children in order.  The mesh is kept   *)
(* in ctrl, next to the records in renderer.                               *)
(***************************************************************************)
NoMatrix == <<>>

NewMesh == [matrix |-> [s \in 0..MaxInstances |-> NoMatrix], edges |-> <<>>]

setMatrixAt(mesh, idx, m) == [mesh EXCEPT !.matrix[idx] = m]

(* addBox: the transform of the new slot and the new outline *)
meshAddBox(mesh, r, gx, gy, gz) ==
    LET pos == gridToWorld(Cell(gx, gy, gz))
        written == setMatrixAt(mesh, r.instanceCount, pos)
    IN [written EXCEPT !.edges = Append(mesh.edges, pos)]

(* a removal that leaves the vacated slot as it was *)
moveLastInstanceNot(mesh, r, idx) == mesh

(* removeBox: the last slot's transform is copied into the vacated slot *)
moveLastInstance(mesh, r, idx) ==
    IF r.boxes[idx].instanceIndex # r.instanceCount - 1
    THEN setMatrixAt(mesh, r.boxes[idx].instanceIndex, mesh.matrix[r.instanceCount - 1])
    ELSE mesh

(* a removal that takes the outline at the slot number of the record *)
removeEdgeAtSlot(mesh, r, idx) ==
    IF r.boxes[idx].instanceIndex < Len(mesh.edges)
    THEN [mesh EXCEPT !.edges = splice(mesh.edges, r.boxes[idx].instanceIndex + 1)]
    ELSE mesh

(* removeBox: edgeGroup.children[idx] is removed, idx the place in the list *)
removeEdge(mesh, r, idx) ==
    IF idx - 1 < Len(mesh.edges)
    THEN [mesh EXCEPT !.edges = splice(mesh.edges, idx)]
    ELSE mesh

(* removeBox on the mesh; r is the renderer before the call.  When the     *)
(* call throws, the copy of the transform has been made and nothing else.  *)
meshRemoveBox(mesh, r, gx, gy, gz) ==
    LET idx == findIndex(r.boxes, gx, gy, gz) IN
    IF idx = 0 THEN mesh
    ELSE IF removeBox(r, gx, gy, gz).threw THEN moveLastInstance(mesh, r, idx)
    ELSE removeEdge(moveLastInstance(mesh, r, idx), r, idx)

meshClearBoxes(mesh) == [mesh EXCEPT !.edges = <<>>]

InitMesh ==
    /\ grid = NewGrid
    /\ renderer = NewRenderer
    /\ ctrl = NewMesh
    /\ lastCall = BufferCall("new", NoCell, FALSE, -1)
    /\ lowRun = 0

MeshAddBox ==
    \E c \in RendererCells :
        /\ renderer.instanceCount < MaxInstances
        /\ renderer' = addBox(renderer, c.gx, c.gy, c.gz)
        /\ ctrl' = meshAddBox(ctrl, renderer, c.gx, c.gy, c.gz)
        /\ lastCall' = BufferCall("addBox", c, TRUE, -1)
        /\ UNCHANGED <<grid, lowRun>>

MeshRemoveBox ==
    \E c \in RendererCells :
        /\ renderer' = removeBox(renderer, c.gx, c.gy, c.gz).renderer
        /\ ctrl' = meshRemoveBox(ctrl, renderer, c.gx, c.gy, c.gz)
        /\ lastCall' = BufferCall("removeBox", c, removeBox(renderer, c.gx, c.gy, c.gz).ret,
                                findIndex(renderer.boxes, c.gx, c.gy, c.gz))
        /\ UNCHANGED <<grid, lowRun>>

MeshClearBoxes ==
    /\ renderer' = clearBoxes(renderer)
    /\ ctrl' = meshClearBoxes(ctrl)
    /\ lastCall' = BufferCall("clearBoxes", NoCell, TRUE, -1)
    /\ UNCHANGED <<grid, lowRun>>

NextMesh == MeshAddBox \/ MeshRemoveBox \/ MeshClearBoxes

SpecMesh == InitMesh /\ [][NextMesh]_vars

(* the cells read back from the transforms of the live slots *)
SlotCells == {worldToGrid(ctrl.matrix[s]) : s \in 0..(renderer.instanceCount - 1)}

RecordCells == {CellOf(renderer.boxes[i]) : i \in 1..Len(renderer.boxes)}

C37_EdgesMirrorRecords ==
    /\ Len(ctrl.edges) = renderer.instanceCount
    /\ Len(ctrl.edges) = Len(renderer.boxes)
    /\ \A i \in 1..Len(renderer.boxes) :
          ctrl.edges[i] = gridToWorld(CellOf(renderer.boxes[i]))

(* a removeBox has removed a record whose place in the list was not its    *)
(* slot, and outlines of other cells are left                              *)
C37_Witness ==
    /\ lastCall.op = "removeBox" /\ lastCall.ret
    /\ lastCall.pre.slot >= 1
    /\ Len(ctrl.edges) >= 2
    /\ \E i \in 1..Len(renderer.boxes) : renderer.boxes[i].instanceIndex # i - 1
    /\ \A i \in 1..Len(ctrl.edges) : ctrl.edges[i] # gridToWorld(lastCall.cell)

(***************************************************************************)
(* Strokes and the drawing flag (SpecStroke).                              *)
(***************************************************************************)
(* C33: a tick whose right-hand PINCH event is ACTIVE and which begins     *)
(* with isDrawing false (no STARTED since the last end of a stroke, or a   *)
(* reset() in mid-gesture) leaves the occupied set as it was.              *)
C33_EditsOnlyInOpenStroke ==
    [][(/\ lastCall'.op = "tick"
        /\ lastCall'.events # <<>>
        /\ lastCall'.events[1].state = "ACTIVE"
        /\ ~ctrl.isDrawing) => grid'.occupied = grid.occupied]_vars

(* C34: whenever the preview cursor of an existing renderer is visible,    *)
(* isDrawing is true (so the preview is hidden right after reset() and     *)
(* after every tick that ends with isDrawing false).                       *)
C34_PreviewOnlyWhileDrawing ==
    (renderer.created /\ renderer.ghostVisible) => ctrl.isDrawing

(***************************************************************************)
(* Agreement of the controller and its renderer (SpecBuildFrame).          *)
(***************************************************************************)
(* C35: whenever a renderer exists, its erase-visual flag equals the       *)
(* controller's eraseMode.                                                 *)
C35_EraseFlagAgreement ==
    renderer.created => renderer.eraseMode = ctrl.eraseMode

(* C36: whenever a renderer exists, the palette it recolors with is the    *)
(* palette at the controller's paletteIndex.                               *)
C36_PaletteAgreement ==
    renderer.created => renderer.palette = ctrl.paletteIndex

(***************************************************************************)
(* The number of scheduled frame callbacks (SpecDriver).                   *)
(***************************************************************************)
Pending(S) == Cardinality(S.ctrl.frameRequests)

(* C38: at most one frame callback is scheduled in every reachable state,  *)
(* and it stays so over a start() (while running or not), over a stop()    *)
(* followed at once by a start(), and over the run of the callback.        *)
C38_SingleFrameLoop ==
    /\ Pending(Here) <= 1
    /\ \A sample \in BOOLEAN, events \in DriverLists :
          /\ Pending(startDriver(Here, sample, TRUE, events)) = 1
          /\ ctrl.isRunning =>
                startDriver(Here, sample, TRUE, events).ctrl.frameRequests
                    = ctrl.frameRequests
          /\ Pending(startDriver(stopDriver(Here), sample, TRUE, events)) = 1
          /\ \A id \in ctrl.frameRequests :
                Pending(runCallback(Here, id, sample, TRUE, events)) <= 1

(* start() has just been called on a driver that was already running, had  *)
(* been stopped and started before, and one callback is scheduled          *)
C38_Witness ==
    /\ lastCall.op = "start"
    /\ ctrl.isRunning
    /\ ctrl.nextRequestId > 3
    /\ Pending(Here) = 1
    /\ \A events \in DriverLists : startDriver(Here, FALSE, TRUE, events) = Here

(***************************************************************************)
(* Results that arrive after reset() or stop() (SpecVision).               *)
(***************************************************************************)
(* C39: when reset() or stop() has just been called with an inference in   *)
(* flight, the fulfilment of that inference is not applied: after reset()  *)
(* latestDetections and trackedDetections are still empty, after stop()    *)
(* they are what they were.                                                *)
C39_NoStaleResult ==
    (lastCall.op \in {"reset", "stop"} /\ ctrl.pending > 0) =>
        \A detections \in DetectionLists :
            /\ settle(ctrl, TRUE, detections).latestDetections = ctrl.latestDetections
            /\ settle(ctrl, TRUE, detections).trackedDetections = ctrl.trackedDetections
            /\ lastCall.op = "reset" =>
                  settle(ctrl, TRUE, detections).trackedDetections = <<>>

(***************************************************************************)
(* HologramController.updateHandTracking.  handStates is the Map of the    *)
(* per-hand states, a function on the hand indices it has entries for.     *)
(* Distances are in units of 0.005: the thresholds 0.04 and 0.065 are 8    *)
(* and 13.  A null position is -1 and a null pivot 0.  A tick also turns   *)
(* the grabbed limb or the schematic and updates the hover visuals; none   *)
(* of the statements that read or write handStates reads those, and they   *)
(* are left out.                                                           *)
(***************************************************************************)
MaxHands == 2

PINCH_START_THRESHOLD == 8

PINCH_RELEASE_THRESHOLD == 13

NewHandState ==
    [isGrabbing |-> FALSE, grabTarget |-> "null", grabbedLimbPivot |-> 0,
     limbAxis |-> "null", limbSide |-> "null",
     grabStartHandPosition |-> -1, lastHandPosition |-> -1]

NoHandStates == [i \in {} |-> NewHandState]

(* an intersection of the ray: a limb volume (with its pivot), a body part *)
(* or another object of the schematic                                      *)
Hit(kind, pivot) == [kind |-> kind, pivot |-> pivot]

(* userData of the limb volumes: pivot 1 is the left arm, 2 the right leg  *)
LimbAxisOf(pivot) == IF pivot = 1 THEN "vertical" ELSE "horizontal"

LimbSideOf(pivot) == IF pivot = 1 THEN "left" ELSE "right"

(* a tracked hand: thumb-index distance, palm position, intersections of   *)
(* the ray through the pinch midpoint                                      *)
Hand(pinchDistance, handPosition, intersects) ==
    [pinchDistance |-> pinchDistance, handPosition |-> handPosition,
     intersects |-> intersects]

limbGrab(handState, hand, pivot) ==
    [handState EXCEPT !.isGrabbing = TRUE, !.grabTarget = "limb",
                      !.grabbedLimbPivot = pivot,
                      !.limbAxis = LimbAxisOf(pivot), !.limbSide = LimbSideOf(pivot),
                      !.grabStartHandPosition = hand.handPosition,
                      !.lastHandPosition = hand.handPosition]

bodyGrab(handState, hand) ==
    [handState EXCEPT !.isGrabbing = TRUE, !.grabTarget = "body",
                      !.grabbedLimbPivot = 0, !.limbAxis = "null",
                      !.grabStartHandPosition = hand.handPosition]

(* the loop over the intersections: the first limb or body part decides *)
RECURSIVE grabFirstTarget(_, _, _)
grabFirstTarget(handState, hand, i) ==
    IF i > Len(hand.intersects) THEN handState
    ELSE IF hand.intersects[i].kind = "limb"
         THEN limbGrab(handState, hand, hand.intersects[i].pivot)
    ELSE IF hand.intersects[i].kind = "body" THEN bodyGrab(handState, hand)
    ELSE grabFirstTarget(handState, hand, i + 1)

grabStart(handState, hand, schematic) ==
    IF schematic THEN grabFirstTarget(handState, hand, 1) ELSE handState

continueGrabbing(handState, hand) ==
    IF /\ handState.grabStartHandPosition # -1
       /\ handState.grabTarget = "limb"
       /\ handState.grabbedLimbPivot # 0
    THEN [handState EXCEPT !.lastHandPosition = hand.handPosition]
    ELSE handState

release(handState) ==
    IF handState.isGrabbing
    THEN [handState EXCEPT !.isGrabbing = FALSE, !.grabTarget = "null",
                           !.grabbedLimbPivot = 0, !.limbAxis = "null",
                           !.limbSide = "null", !.grabStartHandPosition = -1,
                           !.lastHandPosition = -1]
    ELSE handState

(* a pinch test with the start threshold for holding as well *)
isPinchingOneThreshold(handState, hand) == hand.pinchDistance < PINCH_START_THRESHOLD

isPinching(handState, hand) ==
    IF handState.isGrabbing
    THEN hand.pinchDistance < PINCH_RELEASE_THRESHOLD
    ELSE hand.pinchDistance < PINCH_START_THRESHOLD

(* the body of the loop for one detected hand, on its state *)
processHand(handState, hand, schematic) ==
    IF isPinching(handState, hand)
    THEN IF ~handState.isGrabbing
         THEN grabStart(handState, hand, schematic)
         ELSE continueGrabbing(handState, hand)
    ELSE release(handState)

(* this.handStates.get(handIndex), created when there is none *)
getOrCreate(states, handIndex) ==
    IF handIndex \in DOMAIN states THEN states[handIndex] ELSE NewHandState

setState(states, handIndex, handState) ==
    [i \in DOMAIN states \cup {handIndex} |->
        IF i = handIndex THEN handState ELSE states[i]]

(* the loop over result.landmarks, from hand index handIndex on *)
RECURSIVE handLoop(_, _, _, _)
handLoop(states, landmarks, handIndex, schematic) ==
    IF handIndex >= Len(landmarks) THEN states
    ELSE handLoop(setState(states, handIndex,
                           processHand(getOrCreate(states, handIndex),
                                       landmarks[handIndex + 1], schematic)),
                  landmarks, handIndex + 1, schematic)

(* a tick that keeps the states of the hands that are gone *)
cleanUpNothing(states, detectedHandIndices) == states

cleanUp(states, detectedHandIndices) ==
    [i \in DOMAIN states \cap detectedHandIndices |-> states[i]]

updateHandTracking(states, landmarks, schematic) ==
    IF Len(landmarks) = 0 THEN NoHandStates
    ELSE cleanUp(handLoop(states, landmarks, 0, schematic), 0..(Len(landmarks) - 1))

NewHologram == [handStates |-> NoHandStates, schematic |-> FALSE]

(* createComponents: the schematic is built *)
createComponents(C) == [C EXCEPT !.schematic = TRUE]

(* what the tracker can report of one hand: a pinch on the left arm, on a  *)
(* body part behind another object, in the void, on the right leg behind   *)
(* another object; fingers at the start threshold over the arm; fingers    *)
(* just inside and at the release threshold                                *)
HandSet ==
    {Hand(7, 0, <<Hit("limb", 1)>>),
     Hand(7, 0, <<Hit("other", 0), Hit("body", 0)>>),
     Hand(7, 1, <<>>),
     Hand(7, 1, <<Hit("other", 0), Hit("limb", 2)>>),
     Hand(8, 1, <<Hit("limb", 1)>>),
     Hand(12, 1, <<>>),
     Hand(13, 0, <<Hit("body", 0)>>)}

TickLists == UNION {[1..n -> HandSet] : n \in 0..MaxHands}

Grabbing(states) == {i \in DOMAIN states : states[i].isGrabbing}

(* the history: the call, the hand indices the tracker reported and, of    *)
(* the state before, the indices with a state and those with a grab        *)
HologramCall(op, detected) ==
    [op |-> op, detected |-> detected,
     pre |-> [keys |-> DOMAIN ctrl.handStates, grabbing |-> Grabbing(ctrl.handStates)]]

InitHologram ==
    /\ grid = NewGrid
    /\ renderer = NullRenderer
    /\ ctrl = NewHologram
    /\ lastCall = [op |-> "new", detected |-> {}, pre |-> [keys |-> {}, grabbing |-> {}]]
    /\ lowRun = 0

HologramInitialize ==
    /\ ctrl' = createComponents(ctrl)
    /\ lastCall' = HologramCall("initialize", {})
    /\ UNCHANGED <<grid, renderer, lowRun>>

HandTick ==
    \E landmarks \in TickLists :
        /\ ctrl' = [ctrl EXCEPT !.handStates =
                        updateHandTracking(ctrl.handStates, landmarks, ctrl.schematic)]
        /\ lastCall' = HologramCall("tick", 0..(Len(landmarks) - 1))
        /\ UNCHANGED <<grid, renderer, lowRun>>

NextHologram == HologramInitialize \/ HandTick

SpecHologram == InitHologram /\ [][NextHologram]_vars

After(landmarks) == updateHandTracking(ctrl.handStates, landmarks, ctrl.schematic)

(* C31: after a tick the hand indices with a state are exactly those the   *)
(* tracker reported in the tick, none when it reported no hand; and a hand *)
(* whose index was missing in a tick (one that reported fewer hands, or    *)
(* none) has, after the next tick that reports it, the state of a hand     *)
(* that was never seen before.                                             *)
C31_StatesFollowTracker ==
    /\ lastCall.op = "tick" => DOMAIN ctrl.handStates = lastCall.detected
    /\ \A landmarks \in TickLists :
          /\ DOMAIN After(landmarks) = 0..(Len(landmarks) - 1)
          /\ \A i \in 0..(Len(landmarks) - 1), k \in 0..MaxHands :
                k <= i =>
                    updateHandTracking(After(SubSeq(landmarks, 1, k)), landmarks,
                                       ctrl.schematic)[i]
                        = updateHandTracking(NoHandStates, landmarks, ctrl.schematic)[i]

(* a tick that reported one hand has deleted the state of the second hand, *)
(* which was grabbing, and kept the grab of the first                      *)
C31_Witness ==
    /\ lastCall.op = "tick"
    /\ lastCall.detected = {0}
    /\ lastCall.pre.grabbing = {0, 1}
    /\ DOMAIN ctrl.handStates = {0}
    /\ ctrl.handStates[0].isGrabbing

TargetHit(hand) ==
    \E i \in 1..Len(hand.intersects) : hand.intersects[i].kind \in {"limb", "body"}

(* what a tick with the hand makes of the state before, as claimed *)
Hysteresis(before, hand, after) ==
    /\ (~before.isGrabbing /\ after.isGrabbing) =>
          /\ hand.pinchDistance < PINCH_START_THRESHOLD
          /\ TargetHit(hand)
    /\ (before.isGrabbing /\ hand.pinchDistance < PINCH_RELEASE_THRESHOLD) =>
          /\ after.isGrabbing
          /\ after.grabTarget = before.grabTarget
          /\ after.grabbedLimbPivot = before.grabbedLimbPivot
    /\ (before.isGrabbing /\ hand.pinchDistance >= PINCH_RELEASE_THRESHOLD) =>
          /\ ~after.isGrabbing
          /\ after.grabTarget = "null"
          /\ after.grabbedLimbPivot = 0
          /\ after.grabStartHandPosition = -1
          /\ after.lastHandPosition = -1
    /\ after.isGrabbing => after.grabTarget \in {"limb", "body"}

(* C40: in every reachable state a grabbing hand has a grab target, and a  *)
(* tick begins a grab only below the start threshold with a limb or body   *)
(* part hit, keeps the grab, its target and pivot below the release        *)
(* threshold, and at or above it releases the grab and clears the target,  *)
(* the pivot and the positions.                                            *)
C40_GrabHysteresis ==
    /\ \A i \in DOMAIN ctrl.handStates :
          ctrl.handStates[i].isGrabbing =>
              ctrl.handStates[i].grabTarget \in {"limb", "body"}
    /\ \A landmarks \in TickLists :
        \A i \in 0..(Len(landmarks) - 1) :
          Hysteresis(getOrCreate(ctrl.handStates, i), landmarks[i + 1], After(landmarks)[i])

(* a tick has kept the grab of one hand and released that of the other     *)
C40_Witness ==
    /\ lastCall.op = "tick"
    /\ lastCall.pre.grabbing = {0, 1}
    /\ DOMAIN ctrl.handStates = {0, 1}
    /\ ctrl.handStates[0].isGrabbing /\ ctrl.handStates[0].grabTarget = "limb"
    /\ ~ctrl.handStates[1].isGrabbing /\ ctrl.handStates[1].grabTarget = "null"

====
